---- MODULE Spec2Model ----
(***************************************************************************)
(* Model of the geocoding cache of the ParishStaq portal:                  *)
(*   app/geocoding_service.py   GeocodingService                           *)
(*   app/geocoding_database.py  GeocodeCache, get_geocode_session          *)
(*   app/routes_geocoding.py    the routes that call the service           *)
(*                                                                         *)
(* Strings are sequences of one-character strings, so that the address     *)
(* normalisation is computed character by character as the code's regular  *)
(* expressions compute it.  Time is in milliseconds.                       *)
(***************************************************************************)
EXTENDS Integers, Sequences, FiniteSets, TLC

(***************************************************************************)
(* Bounds of the model                                                     *)
(***************************************************************************)
\* number of concurrent callers (web requests / CLI runs) of the service
NumCallers == 2
\* number of geocode_address calls started in one behaviour
MaxCalls == 3
\* number of geocode_address calls started in one behaviour of concurrent use
MaxConcCalls == 2
\* the longest list of addresses handed to batch_geocode
MaxBatch == 2
\* the clock stops ticking on its own after this many milliseconds
MaxTime == 125

(***************************************************************************)
(* Character strings                                                       *)
(***************************************************************************)
None == "None"

LowerChars == <<"a","b","c","d","e","f","g","h","i","j","k","l","m",
                "n","o","p","q","r","s","t","u","v","w","x","y","z">>
UpperChars == <<"A","B","C","D","E","F","G","H","I","J","K","L","M",
                "N","O","P","Q","R","S","T","U","V","W","X","Y","Z">>
DigitChars == <<"0","1","2","3","4","5","6","7","8","9">>

Range(f) == {f[i] : i \in DOMAIN f}

\* str.upper() on one character
UpperChar(c) ==
    IF c \in Range(LowerChars)
    THEN UpperChars[CHOOSE i \in DOMAIN LowerChars : LowerChars[i] = c]
    ELSE c

\* str.upper()
upper(s) == [i \in DOMAIN s |-> UpperChar(s[i])]

\* \s of the regular expressions and of str.strip()/str.split()
IsSpace(c) == c = " "

\* \w of the regular expressions
IsWord(c) == c \in Range(LowerChars) \cup Range(UpperChars) \cup Range(DigitChars) \cup {"_"}

\* s[a..b], empty when a > b
Slice(s, a, b) == IF a > b THEN <<>> ELSE SubSeq(s, a, b)

\* str.strip()
strip(s) ==
    LET nonsp == {i \in DOMAIN s : ~IsSpace(s[i])}
    IN  IF nonsp = {} THEN <<>>
        ELSE Slice(s, CHOOSE i \in nonsp : \A j \in nonsp : i <= j,
                      CHOOSE i \in nonsp : \A j \in nonsp : i >= j)

\* ' '.join(s.split()): runs of whitespace become one blank, the ends are trimmed
RECURSIVE CollapseFrom(_, _)
CollapseFrom(s, i) ==
    IF i > Len(s) THEN <<>>
    ELSE IF IsSpace(s[i])
         THEN IF i > 1 /\ IsSpace(s[i - 1]) THEN CollapseFrom(s, i + 1)
              ELSE <<" ">> \o CollapseFrom(s, i + 1)
         ELSE <<s[i]>> \o CollapseFrom(s, i + 1)

join_split(s) == CollapseFrom(strip(s), 1)

\* does word w occur in s starting at position j
StartsAt(s, j, w) ==
    /\ j + Len(w) - 1 <= Len(s)
    /\ \A k \in 1..Len(w) : s[j + k - 1] = w[k]

(***************************************************************************)
(* GeocodingService._normalize_address_key                                 *)
(***************************************************************************)
\* the alternation (APT|UNIT|#|STE|SUITE|BLDG|BUILDING) of the unit pattern
UnitDesignators ==
    { <<"A","P","T">>, <<"U","N","I","T">>, <<"#">>, <<"S","T","E">>,
      <<"S","U","I","T","E">>, <<"B","L","D","G">>,
      <<"B","U","I","L","D","I","N","G">> }

\* the tail  \s*[\w\-]+\s*$  of the unit pattern matches s from position j on
UnitTail(s, j) ==
    \E a \in j..Len(s) : \E b \in a..Len(s) :
        /\ \A k \in j..(a - 1) : IsSpace(s[k])
        /\ \A k \in a..b : IsWord(s[k]) \/ s[k] = "-"
        /\ \A k \in (b + 1)..Len(s) : IsSpace(s[k])

\* the unit pattern  \s*(APT|...)\s*[\w\-]+\s*$  matches s starting at position i
UnitMatchAt(s, i) ==
    \E j \in i..Len(s) :
        /\ \A k \in i..(j - 1) : IsSpace(s[k])
        /\ \E d \in UnitDesignators : StartsAt(s, j, d) /\ UnitTail(s, j + Len(d))

\* re.sub(unit pattern, '', s): the leftmost match runs to the end of s and is removed
StripUnit(s) ==
    LET starts == {i \in DOMAIN s : UnitMatchAt(s, i)}
    IN  IF starts = {} THEN s
        ELSE Slice(s, 1, (CHOOSE i \in starts : \A j \in starts : i <= j) - 1)

\* the table `replacements`: whole word -> abbreviation
Abbreviation(w) ==
    CASE w = <<"S","T","R","E","E","T">> -> <<"S","T">>
      [] w = <<"A","V","E","N","U","E">> -> <<"A","V","E">>
      [] w = <<"B","O","U","L","E","V","A","R","D">> -> <<"B","L","V","D">>
      [] w = <<"D","R","I","V","E">> -> <<"D","R">>
      [] w = <<"L","A","N","E">> -> <<"L","N">>
      [] w = <<"C","O","U","R","T">> -> <<"C","T">>
      [] w = <<"P","L","A","C","E">> -> <<"P","L">>
      [] w = <<"R","O","A","D">> -> <<"R","D">>
      [] w = <<"C","I","R","C","L","E">> -> <<"C","I","R">>
      [] w = <<"N","O","R","T","H">> -> <<"N">>
      [] w = <<"S","O","U","T","H">> -> <<"S">>
      [] w = <<"E","A","S","T">> -> <<"E">>
      [] w = <<"W","E","S","T">> -> <<"W">>
      [] w = <<"N","O","R","T","H","E","A","S","T">> -> <<"N","E">>
      [] w = <<"N","O","R","T","H","W","E","S","T">> -> <<"N","W">>
      [] w = <<"S","O","U","T","H","E","A","S","T">> -> <<"S","E">>
      [] w = <<"S","O","U","T","H","W","E","S","T">> -> <<"S","W">>
      [] OTHER -> w

\* the loop of re.sub(r'\bX\b', abbreviation, street): every maximal run of
\* word characters that is a key of the table is replaced
RECURSIVE AbbreviateFrom(_, _)
AbbreviateFrom(s, i) ==
    IF i > Len(s) THEN <<>>
    ELSE IF ~IsWord(s[i]) THEN <<s[i]>> \o AbbreviateFrom(s, i + 1)
    ELSE LET ends == {e \in i..Len(s) :
                         /\ \A k \in i..e : IsWord(s[k])
                         /\ (e = Len(s) \/ ~IsWord(s[e + 1]))}
             e == CHOOSE x \in ends : TRUE
         IN  Abbreviation(SubSeq(s, i, e)) \o AbbreviateFrom(s, e + 1)

Abbreviate(s) == AbbreviateFrom(s, 1)

\* zip_code[:5]
First5(z) == Slice(z, 1, IF Len(z) < 5 THEN Len(z) ELSE 5)

\* the four normalised components, before they are joined with '|'
NormStreet(street) == join_split(Abbreviate(StripUnit(strip(upper(street)))))
NormCity(city) == join_split(strip(upper(city)))
NormState(state) == strip(upper(state))
NormZip(zip_code) == First5(strip(zip_code))

\* f"{street}|{city}|{state}|{zip_code}"
_normalize_address_key(street, city, state, zip_code) ==
    NormStreet(street) \o <<"|">> \o NormCity(city) \o <<"|">>
        \o NormState(state) \o <<"|">> \o NormZip(zip_code)


(***************************************************************************)
(* Inputs: the addresses callers ask for and what the provider may answer  *)
(***************************************************************************)
\* "1 ELM ST", "KENT", "WA", "98101"
AddrPlain ==
    [street |-> <<"1"," ","E","L","M"," ","S","T">>, city |-> <<"K","E","N","T">>,
     state |-> <<"W","A">>, zip_code |-> <<"9","8","1","0","1">>]
\* "1 Elm Street Apt 4", "kent", "wa", "98101-1234": the same address written differently
AddrVariant ==
    [street |-> <<"1"," ","E","l","m"," ","S","t","r","e","e","t"," ","A","p","t"," ","4">>,
     city |-> <<"k","e","n","t">>, state |-> <<"w","a">>,
     zip_code |-> <<"9","8","1","0","1","-","1","2","3","4">>]
\* "2 OAK AVE", "KENT", "WA", "98101": another address
AddrOther ==
    [street |-> <<"2"," ","O","A","K"," ","A","V","E">>, city |-> <<"K","E","N","T">>,
     state |-> <<"W","A">>, zip_code |-> <<"9","8","1","0","1">>]

Addresses == {AddrPlain, AddrVariant, AddrOther}

\* address_key = self._normalize_address_key(street, city, state, zip_code), computed
\* once for each address of the model
KeyTable ==
    [a \in Addresses |-> _normalize_address_key(a.street, a.city, a.state, a.zip_code)]

KeyOf(a) == KeyTable[a]

Keys == {KeyOf(a) : a \in Addresses}

\* results[0] of a provider answer: geometry.location.lat/lng, geometry.location_type;
\* a coordinate x is the tuple <<x * 10^7>> (the provider gives seven decimals):
\* 47.68/-122.32, 47.6062095/-122.3320708 and 47.38/-122.23
\* (None: the payload has no location_type), formatted_address, place_id
Candidates ==
    { [lat |-> <<476800000>>, lng |-> <<0 - 1223200000>>, location_type |-> "ROOFTOP",
       formatted_address |-> "1 Elm St, Kent, WA 98101", place_id |-> "abc123"],
      [lat |-> <<476062095>>, lng |-> <<0 - 1223320708>>, location_type |-> "RANGE_INTERPOLATED",
       formatted_address |-> "Elm St, Kent, WA", place_id |-> "def456"],
      [lat |-> <<473800000>>, lng |-> <<0 - 1222300000>>, location_type |-> None,
       formatted_address |-> None, place_id |-> None] }

\* str(e) of the exceptions geocode_address catches around the provider call
ProviderErrors == {"ApiError", "Timeout", "TransportError"}

(***************************************************************************)
(* GeocodingService constants                                              *)
(***************************************************************************)
\* RATE_LIMIT_DELAY = 0.05 s
RATE_LIMIT_DELAY == 50

\* CONFIDENCE_MAP.get(location_type, 'low')
CONFIDENCE_MAP(location_type) ==
    CASE location_type = "ROOFTOP" -> "high"
      [] location_type = "RANGE_INTERPOLATED" -> "medium"
      [] location_type = "GEOMETRIC_CENTER" -> "medium"
      [] location_type = "APPROXIMATE" -> "low"
      [] OTHER -> "low"

\* result['geometry'].get('location_type', 'UNKNOWN')
LocationType(c) == IF c.location_type = None THEN "UNKNOWN" ELSE c.location_type

(***************************************************************************)
(* The clock                                                               *)
(***************************************************************************)
\* time.time() when the service is constructed (_last_request_time starts at 0)
StartTime == 100
\* the clock advances on its own in steps of Tick milliseconds
Tick == 25
\* a DateTime column that was never set
Never == 0 - 1

(***************************************************************************)
(* State                                                                   *)
(***************************************************************************)
Callers == 1..NumCallers

VARIABLES
    configured,         \* a database URL is set in the environment (get_database_url)
    store,              \* the rows of table geocode_cache (committed state)
    nextId,             \* the AUTO_INCREMENT counter of geocode_cache.id
    now,                \* time.time() / datetime.utcnow(), in milliseconds
    _last_request_time, \* GeocodingService._last_request_time
    pc,                 \* pc[p]: where caller p is in geocode_address
    req,                \* req[p]: the arguments of p's call
    address_key,        \* address_key[p]: the local address_key
    session,            \* session[p]: the transaction of p's session and the row object it loaded
    wake,               \* wake[p]: when p's time.sleep() returns
    results,            \* results[p]: the provider's answer / the error message to record
    ret,                \* ret[p]: what p's call returned
    calls,              \* number of calls started so far
    pre,                \* history: pre[p] is the row of address_key[p] when p's call started
    waits,              \* history: _rate_limit() invocations completed by p's call
    requests,           \* history: provider requests made by p's call
    failedAttempts,     \* history: per key, provider calls that failed or found nothing
    okAttempts,         \* history: per key, provider calls that returned a candidate
    writeFailed,        \* history: writeFailed[p], a store write of p's call raised
    GOOGLE_MAPS_API_KEY, \* the environment holds a provider key
    _geocoding_service, \* the singleton of routes_geocoding: None or "GeocodingService"
    init_raised,        \* history: a construction of GeocodingService raised ValueError
    batch,              \* the locals of batch_geocode / of the loop of api_batch_geocode
    stats,              \* what get_cache_stats returned
    norm,               \* the locals of a run of _normalize_address_key on its own
    http                \* the request a geocoding route is serving and its user

vars == <<configured, store, nextId, now, _last_request_time, pc, req, address_key, session, wake,
          results, ret, calls, pre, waits, requests, failedAttempts, okAttempts,
          writeFailed, GOOGLE_MAPS_API_KEY, _geocoding_service, init_raised, batch, stats,
          norm, http>>

\* the state geocode_address neither reads nor writes
outside ==
    <<GOOGLE_MAPS_API_KEY, _geocoding_service, init_raised, batch, stats, norm, http>>

\* get_current_user returned None
NoUser == [id |-> 0]

\* no request is being served
NoHttp ==
    [state |-> "idle", handler |-> "None", user_id |-> 0, user |-> NoUser, served |-> 0]

\* no batch is running
NoBatch ==
    [state |-> "idle", route |-> FALSE, addresses |-> << >>, callback |-> FALSE,
     results |-> << >>, progress |-> << >>]

\* get_cache_stats was not called
NoStats == [outcome |-> "pending"]

\* _normalize_address_key is not running on its own
NoNorm == [stage |-> "none"]

\* None in a Float column or attribute
NoneFloat == << >>

\* no GeocodeCache object (query(...).first() returned None)
NoRow == [id |-> 0]

\* return values of geocode_address
Pending == [outcome |-> "pending"]
ReturnedNone == [outcome |-> "None"]
Raised == [outcome |-> "raised"]

\* is_valid as it would be if an entry carrying an error did not count as valid
is_valid_unless_error(r) ==
    r.latitude # NoneFloat /\ r.longitude # NoneFloat /\ r.error_message = None

\* GeocodeCache.is_valid
is_valid(r) == r.latitude # NoneFloat /\ r.longitude # NoneFloat

\* session.query(GeocodeCache).filter_by(address_key=k).first() on the committed rows
First(rows, k) ==
    LET hits == {r \in rows : r.address_key = k}
    IN  IF hits = {} THEN NoRow
        ELSE CHOOSE r \in hits : \A o \in hits : r.id <= o.id

\* the row with primary key id
Get(rows, id) == CHOOSE r \in rows : r.id = id

\* n rounded to six significant decimal digits
Round6(n) ==
    LET a == IF n < 0 THEN 0 - n ELSE n
        unit == IF a < 1000000 THEN 1
                ELSE IF a < 10000000 THEN 10
                ELSE IF a < 100000000 THEN 100
                ELSE IF a < 1000000000 THEN 1000
                ELSE 10000
        r == ((a + unit \div 2) \div unit) * unit
    IN  IF n < 0 THEN 0 - r ELSE r

\* what a Column(Float) gives back for a value written to it: create_all() makes the
\* column a MariaDB FLOAT (single precision), which keeps and returns six significant
\* decimal digits
FloatColumn(v) == IF v = NoneFloat THEN NoneFloat ELSE <<Round6(v[1])>>

\* the value column f holds after `value` was written to it
ColumnValue(f, value) ==
    IF f \in {"latitude", "longitude"} THEN FloatColumn(value) ELSE value

\* session.add(obj); session.commit(): INSERT INTO geocode_cache
Insert(rows, obj) == rows \cup {[f \in DOMAIN obj |-> ColumnValue(f, obj[f])]}

\* session.commit() of a modified object: UPDATE geocode_cache SET <the attributes whose
\* value differs from the loaded one> WHERE id = obj.id; the other columns keep
\* what is committed
Update(rows, obj, changes) ==
    { IF r.id = obj.id
      THEN [f \in DOMAIN r |->
               IF f \in DOMAIN changes /\ changes[f] # obj[f]
               THEN ColumnValue(f, changes[f]) ELSE r[f]]
      ELSE r : r \in rows }

\* the unique index on address_key (Column(..., unique=True)): may row k be inserted
UniqueOk(rows, k) == \A r \in rows : r.address_key # k


\* the session's second query of the same key: inside the transaction the first query
\* began, the identity map returns the object already loaded and the snapshot (InnoDB)
\* shows no row that was not there; otherwise the committed rows are read
Query(p) ==
    IF session[p].began THEN session[p].obj ELSE First(store, address_key[p])

\* what gmaps.geocode() may do
ProviderOutcomes ==
    {[kind |-> "error", message |-> e] : e \in ProviderErrors}
        \cup {[kind |-> "empty"], [kind |-> "malformed"]}
        \cup {[kind |-> "ok", first |-> c] : c \in Candidates}

NoOutcome == [kind |-> "none"]

NoSession == [began |-> FALSE, obj |-> NoRow]

\* no call in progress
NoRequest == [a |-> AddrPlain, force_refresh |-> FALSE]

\* the dictionary geocode_address returns on a cache hit
HitResult(row) ==
    [outcome |-> "result", lat |-> row.latitude, lng |-> row.longitude,
     accuracy |-> row.accuracy, confidence |-> row.confidence,
     formatted_address |-> row.formatted_address, place_id |-> row.place_id,
     cached |-> TRUE, cache_id |-> row.id]

\* the dictionary geocode_address returns after a provider request
FreshResult(c, id) ==
    [outcome |-> "result", lat |-> c.lat, lng |-> c.lng,
     accuracy |-> LocationType(c), confidence |-> CONFIDENCE_MAP(LocationType(c)),
     formatted_address |-> c.formatted_address, place_id |-> c.place_id,
     cached |-> FALSE, cache_id |-> id]

\* the success path on an existing entry as it would be without the line that counts
\* the lookup
SuccessChanges_keeps_usage(entry, c) ==
    [latitude |-> c.lat, longitude |-> c.lng,
     formatted_address |-> c.formatted_address, place_id |-> c.place_id,
     accuracy |-> LocationType(c), confidence |-> CONFIDENCE_MAP(LocationType(c)),
     error_message |-> None]

\* the attributes the success path assigns to an existing entry
SuccessChanges(entry, c) ==
    [latitude |-> c.lat, longitude |-> c.lng,
     formatted_address |-> c.formatted_address, place_id |-> c.place_id,
     accuracy |-> LocationType(c), confidence |-> CONFIDENCE_MAP(LocationType(c)),
     error_message |-> None, usage_count |-> entry.usage_count + 1]

\* GeocodeCache(...) of the success path as it would be if longitude were not passed
SuccessRow_without_longitude(id, k, r, c) ==
    [id |-> id, address_key |-> k,
     street |-> r.street, city |-> r.city, state |-> r.state, zip_code |-> r.zip_code,
     latitude |-> c.lat, longitude |-> NoneFloat,
     formatted_address |-> c.formatted_address, place_id |-> c.place_id,
     accuracy |-> LocationType(c), confidence |-> CONFIDENCE_MAP(LocationType(c)),
     error_message |-> None, retry_count |-> 0,
     last_error_at |-> Never, usage_count |-> 1]

\* GeocodeCache(...) of the success path, with the column defaults
SuccessRow(id, k, r, c) ==
    [id |-> id, address_key |-> k,
     street |-> r.street, city |-> r.city, state |-> r.state, zip_code |-> r.zip_code,
     latitude |-> c.lat, longitude |-> c.lng,
     formatted_address |-> c.formatted_address, place_id |-> c.place_id,
     accuracy |-> LocationType(c), confidence |-> CONFIDENCE_MAP(LocationType(c)),
     error_message |-> None, retry_count |-> 0,
     last_error_at |-> Never, usage_count |-> 1]

\* _record_error on an existing entry as it would be if it counted the retry only
ErrorChanges_no_message(entry, message, t) ==
    [retry_count |-> entry.retry_count + 1]

\* _record_error on an existing entry as it would be under the policy "a failed
\* refresh clears the last fix"
ErrorChanges_clears_fix(entry, message, t) ==
    [latitude |-> NoneFloat, longitude |-> NoneFloat, accuracy |-> None, confidence |-> None,
     error_message |-> message, retry_count |-> entry.retry_count + 1,
     last_error_at |-> t]

\* the attributes _record_error assigns to an existing entry
ErrorChanges(entry, message, t) ==
    [error_message |-> message, retry_count |-> entry.retry_count + 1,
     last_error_at |-> t]

\* GeocodeCache(...) of _record_error as it would be if retry_count were left to the
\* column default
ErrorRow_default_retry(id, k, r, message, t) ==
    [id |-> id, address_key |-> k,
     street |-> r.street, city |-> r.city, state |-> r.state, zip_code |-> r.zip_code,
     latitude |-> NoneFloat, longitude |-> NoneFloat,
     formatted_address |-> None, place_id |-> None,
     accuracy |-> None, confidence |-> None,
     error_message |-> message, retry_count |-> 0,
     last_error_at |-> t, usage_count |-> 1]

\* GeocodeCache(...) of _record_error, with the column defaults
ErrorRow(id, k, r, message, t) ==
    [id |-> id, address_key |-> k,
     street |-> r.street, city |-> r.city, state |-> r.state, zip_code |-> r.zip_code,
     latitude |-> NoneFloat, longitude |-> NoneFloat,
     formatted_address |-> None, place_id |-> None,
     accuracy |-> None, confidence |-> None,
     error_message |-> message, retry_count |-> 1,
     last_error_at |-> t, usage_count |-> 1]

\* the message geocode_address hands to _record_error
ErrorMessage(outcome) ==
    IF outcome.kind = "error" THEN outcome.message ELSE "No results"

(***************************************************************************)
(* Initial state: an empty table, a service just constructed, no call      *)
(***************************************************************************)
Init ==
    /\ configured = TRUE
    /\ store = {}
    /\ nextId = 1
    /\ now = StartTime
    /\ _last_request_time = 0
    /\ pc = [p \in Callers |-> "idle"]
    /\ req = [p \in Callers |-> NoRequest]
    /\ address_key = [p \in Callers |-> <<>>]
    /\ session = [p \in Callers |-> NoSession]
    /\ wake = [p \in Callers |-> 0]
    /\ results = [p \in Callers |-> NoOutcome]
    /\ ret = [p \in Callers |-> Pending]
    /\ calls = 0
    /\ pre = [p \in Callers |-> NoRow]
    /\ waits = [p \in Callers |-> 0]
    /\ requests = [p \in Callers |-> 0]
    /\ failedAttempts = [k \in Keys |-> 0]
    /\ okAttempts = [k \in Keys |-> 0]
    /\ writeFailed = [p \in Callers |-> FALSE]
    /\ GOOGLE_MAPS_API_KEY = TRUE
    /\ _geocoding_service = "GeocodingService"
    /\ init_raised = FALSE
    /\ batch = NoBatch
    /\ stats = NoStats
    /\ http = NoHttp
    /\ norm = NoNorm

(***************************************************************************)
(* geocode_address, one step per statement that touches shared state       *)
(***************************************************************************)
\* the entry of geocode_address as it would be if the cache were consulted even when
\* force_refresh is set
Enter_ignores_force(p, a, force) ==
    /\ _geocoding_service = "GeocodingService"
    /\ pc[p] = "idle"
    /\ calls < MaxCalls
    /\ calls' = calls + 1
    /\ req' = [req EXCEPT ![p] = [a |-> a, force_refresh |-> force]]
    /\ address_key' = [address_key EXCEPT ![p] = KeyOf(a)]
    /\ session' = [session EXCEPT ![p] = NoSession]
    /\ ret' = [ret EXCEPT ![p] = IF configured THEN Pending ELSE Raised]
    /\ pre' = [pre EXCEPT ![p] = First(store, KeyOf(a))]
    /\ waits' = [waits EXCEPT ![p] = 0]
    /\ requests' = [requests EXCEPT ![p] = 0]
    /\ results' = [results EXCEPT ![p] = NoOutcome]
    /\ pc' = [pc EXCEPT ![p] = IF ~configured THEN "done" ELSE "lookup"]
    /\ UNCHANGED <<outside, writeFailed>>
    /\ UNCHANGED <<configured, store, nextId, now, _last_request_time, wake,
                   failedAttempts, okAttempts>>

\* entry of geocode_address: get_geocode_session() (outside the try: without a database
\* URL its ValueError reaches the caller), the address key, the branch on force_refresh
Enter(p, a, force) ==
    /\ _geocoding_service = "GeocodingService"
    /\ pc[p] = "idle"
    /\ calls < MaxCalls
    /\ calls' = calls + 1
    /\ req' = [req EXCEPT ![p] = [a |-> a, force_refresh |-> force]]
    /\ address_key' = [address_key EXCEPT ![p] = KeyOf(a)]
    /\ session' = [session EXCEPT ![p] = NoSession]
    /\ ret' = [ret EXCEPT ![p] = IF configured THEN Pending ELSE Raised]
    /\ pre' = [pre EXCEPT ![p] = First(store, KeyOf(a))]
    /\ waits' = [waits EXCEPT ![p] = 0]
    /\ requests' = [requests EXCEPT ![p] = 0]
    /\ results' = [results EXCEPT ![p] = NoOutcome]
    /\ pc' = [pc EXCEPT ![p] =
                 IF ~configured THEN "done"
                 ELSE IF force THEN "rate_limit" ELSE "lookup"]
    /\ UNCHANGED <<outside, writeFailed>>
    /\ UNCHANGED <<configured, store, nextId, now, _last_request_time, wake,
                   failedAttempts, okAttempts>>

\* a caller (lookup route, api_geocode, the CLI with or without --force) calls
\* geocode_address
geocode_address(p) ==
    \E a \in Addresses, force \in BOOLEAN : Enter(p, a, force)

\* POST /geocoding/cache/{cache_id}/refresh: re-geocode the stored components of an
\* existing entry with force_refresh=True
refresh_cache_entry(p) ==
    \E entry \in store :
        Enter(p, [street |-> entry.street, city |-> entry.city,
                  state |-> entry.state, zip_code |-> entry.zip_code], TRUE)

\* the cache lookup: session.query(GeocodeCache).filter_by(address_key=...).first()
Lookup(p) ==
    /\ pc[p] = "lookup"
    /\ LET cached == First(store, address_key[p])
       IN  /\ session' = [session EXCEPT ![p] = [began |-> TRUE, obj |-> cached]]
           /\ pc' = [pc EXCEPT ![p] =
                        IF cached # NoRow /\ is_valid(cached) THEN "hit_commit"
                        ELSE "rate_limit"]
    /\ UNCHANGED <<outside, writeFailed>>
    /\ UNCHANGED <<configured, store, nextId, now, _last_request_time, req, address_key, wake,
                   results, ret, calls, pre, waits, requests, failedAttempts, okAttempts>>

\* the cache hit as it would be without the usage update
HitCommit_no_usage(p) ==
    /\ pc[p] = "hit_commit"
    /\ session' = [session EXCEPT ![p].began = FALSE]
    /\ pc' = [pc EXCEPT ![p] = "hit_return"]
    /\ UNCHANGED <<outside, writeFailed>>
    /\ UNCHANGED <<configured, store, nextId, now, _last_request_time, req, address_key,
                   wake, results, ret, calls, pre, waits, requests, failedAttempts,
                   okAttempts>>

\* cache hit: usage_count + 1, session.commit()
HitCommit(p) ==
    /\ pc[p] = "hit_commit"
    /\ LET cached == session[p].obj
       IN  store' = Update(store, cached,
                           [usage_count |-> cached.usage_count + 1])
    /\ session' = [session EXCEPT ![p].began = FALSE]
    /\ pc' = [pc EXCEPT ![p] = "hit_return"]
    /\ UNCHANGED <<outside, writeFailed>>
    /\ UNCHANGED <<configured, nextId, now, _last_request_time, req, address_key, wake,
                   results, ret, calls, pre, waits, requests, failedAttempts, okAttempts>>

\* cache hit: the result is built from the attributes of `cached`, which the commit
\* expired and the first access reloads from the row
HitReturn(p) ==
    /\ pc[p] = "hit_return"
    /\ ret' = [ret EXCEPT ![p] = HitResult(Get(store, session[p].obj.id))]
    /\ pc' = [pc EXCEPT ![p] = "done"]
    /\ UNCHANGED <<outside, writeFailed>>
    /\ UNCHANGED <<configured, store, nextId, now, _last_request_time, req, address_key, session, wake,
                   results, calls, pre, waits, requests, failedAttempts, okAttempts>>

\* _rate_limit: elapsed = time.time() - self._last_request_time
RateLimit(p) ==
    /\ pc[p] = "rate_limit"
    /\ LET elapsed == now - _last_request_time
       IN  IF elapsed < RATE_LIMIT_DELAY
           THEN /\ wake' = [wake EXCEPT ![p] = now + (RATE_LIMIT_DELAY - elapsed)]
                /\ pc' = [pc EXCEPT ![p] = "sleep"]
           ELSE /\ wake' = wake
                /\ pc' = [pc EXCEPT ![p] = "stamp"]
    /\ UNCHANGED <<outside, writeFailed>>
    /\ UNCHANGED <<configured, store, nextId, now, _last_request_time, req, address_key, session,
                   results, ret, calls, pre, waits, requests, failedAttempts, okAttempts>>

\* time.sleep as it would be if it returned at once
Sleep_returns_at_once(p) ==
    /\ pc[p] = "sleep"
    /\ pc' = [pc EXCEPT ![p] = "stamp"]
    /\ UNCHANGED <<outside, writeFailed>>
    /\ UNCHANGED <<configured, store, nextId, now, _last_request_time, req, address_key, session,
                   wake, results, ret, calls, pre, waits, requests, failedAttempts, okAttempts>>

\* _rate_limit: time.sleep(RATE_LIMIT_DELAY - elapsed)
Sleep(p) ==
    /\ pc[p] = "sleep"
    /\ now' = IF now < wake[p] THEN wake[p] ELSE now
    /\ pc' = [pc EXCEPT ![p] = "stamp"]
    /\ UNCHANGED <<outside, writeFailed>>
    /\ UNCHANGED <<configured, store, nextId, _last_request_time, req, address_key, session, wake,
                   results, ret, calls, pre, waits, requests, failedAttempts, okAttempts>>

\* _rate_limit: self._last_request_time = time.time()
Stamp(p) ==
    /\ pc[p] = "stamp"
    /\ _last_request_time' = now
    /\ waits' = [waits EXCEPT ![p] = @ + 1]
    /\ pc' = [pc EXCEPT ![p] = "request"]
    /\ UNCHANGED <<outside, writeFailed>>
    /\ UNCHANGED <<configured, store, nextId, now, req, address_key, session, wake,
                   results, ret, calls, pre, requests, failedAttempts, okAttempts>>

\* self.gmaps.geocode(...) and the parse of results[0]
RequestFrom(p, outcomes) ==
    /\ pc[p] = "request"
    /\ requests' = [requests EXCEPT ![p] = @ + 1]
    /\ \E o \in outcomes :
        /\ results' = [results EXCEPT ![p] = o]
        /\ pc' = [pc EXCEPT ![p] =
                     CASE o.kind \in {"error", "empty"} -> "record_error"
                       [] o.kind = "ok" -> "upsert_query"
                       [] OTHER -> "except"]
        /\ failedAttempts' =
              IF o.kind \in {"error", "empty"}
              THEN [failedAttempts EXCEPT ![address_key[p]] = @ + 1]
              ELSE failedAttempts
        /\ okAttempts' =
              IF o.kind = "ok"
              THEN [okAttempts EXCEPT ![address_key[p]] = @ + 1]
              ELSE okAttempts
    /\ UNCHANGED <<outside, writeFailed>>
    /\ UNCHANGED <<configured, store, nextId, now, _last_request_time, req, address_key, session, wake,
                   ret, calls, pre, waits>>

\* the provider call, answered by one of the outcomes of the model
Request(p) == RequestFrom(p, ProviderOutcomes)

\* _record_error: the query for the existing entry
RecordErrorQuery(p) ==
    /\ pc[p] = "record_error"
    /\ session' = [session EXCEPT ![p] = [began |-> TRUE, obj |-> Query(p)]]
    /\ pc' = [pc EXCEPT ![p] = "record_commit"]
    /\ UNCHANGED <<outside, writeFailed>>
    /\ UNCHANGED <<configured, store, nextId, now, _last_request_time, req, address_key, wake,
                   results, ret, calls, pre, waits, requests, failedAttempts, okAttempts>>

\* _record_error: update or insert, session.commit(); a failed commit is rolled back
\* by the bare except; geocode_address then returns None
RecordErrorCommit(p) ==
    /\ pc[p] = "record_commit"
    /\ LET entry == session[p].obj
           message == ErrorMessage(results[p])
       IN  IF entry # NoRow
           THEN /\ store' = Update(store, entry, ErrorChanges(entry, message, now))
                /\ nextId' = nextId
           ELSE IF UniqueOk(store, address_key[p])
           THEN /\ store' = Insert(store,
                      ErrorRow(nextId, address_key[p], req[p].a, message, now))
                /\ nextId' = nextId + 1
           ELSE /\ store' = store
                /\ nextId' = nextId
    /\ session' = [session EXCEPT ![p].began = FALSE]
    /\ ret' = [ret EXCEPT ![p] = ReturnedNone]
    /\ pc' = [pc EXCEPT ![p] = "done"]
    /\ UNCHANGED <<outside, writeFailed>>
    /\ UNCHANGED <<configured, now, _last_request_time, req, address_key, wake,
                   results, calls, pre, waits, requests, failedAttempts, okAttempts>>

\* success path: the query for the existing entry
UpsertQuery(p) ==
    /\ pc[p] = "upsert_query"
    /\ session' = [session EXCEPT ![p] = [began |-> TRUE, obj |-> Query(p)]]
    /\ pc' = [pc EXCEPT ![p] = "upsert_commit"]
    /\ UNCHANGED <<outside, writeFailed>>
    /\ UNCHANGED <<configured, store, nextId, now, _last_request_time, req, address_key, wake,
                   results, ret, calls, pre, waits, requests, failedAttempts, okAttempts>>

\* success path: update or insert, session.commit(); an IntegrityError of the insert
\* goes to the except clause
UpsertCommit(p) ==
    /\ pc[p] = "upsert_commit"
    /\ LET entry == session[p].obj
           c == results[p].first
       IN  IF entry # NoRow
           THEN /\ store' = Update(store, entry, SuccessChanges(entry, c))
                /\ nextId' = nextId
                /\ session' = [session EXCEPT ![p].began = FALSE]
                /\ pc' = [pc EXCEPT ![p] = "fresh_return"]
           ELSE IF UniqueOk(store, address_key[p])
           THEN /\ store' = Insert(store,
                      SuccessRow(nextId, address_key[p], req[p].a, c))
                /\ nextId' = nextId + 1
                /\ session' = [session EXCEPT ![p] =
                      [began |-> FALSE,
                       obj |-> SuccessRow(nextId, address_key[p], req[p].a, c)]]
                /\ pc' = [pc EXCEPT ![p] = "fresh_return"]
           ELSE /\ store' = store
                /\ nextId' = nextId
                /\ session' = session
                /\ pc' = [pc EXCEPT ![p] = "except"]
    /\ UNCHANGED <<outside, writeFailed>>
    /\ UNCHANGED <<configured, now, _last_request_time, req, address_key, wake,
                   results, ret, calls, pre, waits, requests, failedAttempts, okAttempts>>

\* success path: the result is built from the provider's candidate and cache_entry.id
FreshReturn(p) ==
    /\ pc[p] = "fresh_return"
    /\ ret' = [ret EXCEPT ![p] = FreshResult(results[p].first, session[p].obj.id)]
    /\ pc' = [pc EXCEPT ![p] = "done"]
    /\ UNCHANGED <<outside, writeFailed>>
    /\ UNCHANGED <<configured, store, nextId, now, _last_request_time, req, address_key, session, wake,
                   results, calls, pre, waits, requests, failedAttempts, okAttempts>>

\* except Exception: session.rollback(); return None
Except(p) ==
    /\ pc[p] = "except"
    /\ session' = [session EXCEPT ![p].began = FALSE]
    /\ ret' = [ret EXCEPT ![p] = ReturnedNone]
    /\ pc' = [pc EXCEPT ![p] = "done"]
    /\ UNCHANGED <<outside, writeFailed>>
    /\ UNCHANGED <<configured, store, nextId, now, _last_request_time, req, address_key, wake,
                   results, calls, pre, waits, requests, failedAttempts, okAttempts>>

\* finally: session.close(); the caller has the return value and the call's locals die
Return(p) ==
    /\ pc[p] = "done"
    /\ pc' = [pc EXCEPT ![p] = "idle"]
    /\ session' = [session EXCEPT ![p] = NoSession]
    /\ req' = [req EXCEPT ![p] = NoRequest]
    /\ address_key' = [address_key EXCEPT ![p] = <<>>]
    /\ wake' = [wake EXCEPT ![p] = 0]
    /\ results' = [results EXCEPT ![p] = NoOutcome]
    /\ ret' = [ret EXCEPT ![p] = Pending]
    /\ pre' = [pre EXCEPT ![p] = NoRow]
    /\ waits' = [waits EXCEPT ![p] = 0]
    /\ requests' = [requests EXCEPT ![p] = 0]
    /\ writeFailed' = [writeFailed EXCEPT ![p] = FALSE]
    /\ UNCHANGED <<configured, store, nextId, now, _last_request_time, calls, failedAttempts, okAttempts>>

\* a call returns to a caller that keeps nothing but the value
Finish(p) == Return(p) /\ UNCHANGED outside

(***************************************************************************)
(* Store failures (the database is unreachable when a statement runs)      *)
(***************************************************************************)
\* a query, a commit or the reload of an expired attribute raises inside the try of
\* geocode_address: control goes to its except clause and nothing is committed
StoreFault(p) ==
    /\ pc[p] \in {"lookup", "hit_commit", "hit_return", "upsert_query", "upsert_commit",
                  "fresh_return"}
    /\ session' = [session EXCEPT ![p].began = FALSE]
    /\ pc' = [pc EXCEPT ![p] = "except"]
    /\ writeFailed' = [writeFailed EXCEPT ![p] = @ \/ pc[p] \in {"hit_commit", "upsert_commit"}]
    /\ UNCHANGED outside
    /\ UNCHANGED <<configured, store, nextId, now, _last_request_time, req, address_key,
                   wake, results, ret, calls, pre, waits, requests, failedAttempts,
                   okAttempts>>

\* the query or the commit of _record_error raises: its bare except rolls back and
\* _record_error returns normally, so geocode_address returns None; if that rollback
\* raises too, the exception reaches the except clause of geocode_address
RecordErrorFault(p) ==
    /\ pc[p] \in {"record_error", "record_commit"}
    /\ session' = [session EXCEPT ![p].began = FALSE]
    /\ \E rollback_ok \in BOOLEAN :
          IF rollback_ok
          THEN /\ ret' = [ret EXCEPT ![p] = ReturnedNone]
               /\ pc' = [pc EXCEPT ![p] = "done"]
          ELSE /\ ret' = ret
               /\ pc' = [pc EXCEPT ![p] = "except"]
    /\ writeFailed' = [writeFailed EXCEPT ![p] = @ \/ pc[p] = "record_commit"]
    /\ UNCHANGED outside
    /\ UNCHANGED <<configured, store, nextId, now, _last_request_time, req, address_key,
                   wake, results, calls, pre, waits, requests, failedAttempts, okAttempts>>

\* session.rollback() in the except clause of geocode_address raises: after the finally
\* clause the exception reaches the caller
RollbackFault(p) ==
    /\ pc[p] = "except"
    /\ session' = [session EXCEPT ![p].began = FALSE]
    /\ ret' = [ret EXCEPT ![p] = Raised]
    /\ pc' = [pc EXCEPT ![p] = "done"]
    /\ UNCHANGED <<outside, writeFailed>>
    /\ UNCHANGED <<configured, store, nextId, now, _last_request_time, req, address_key,
                   wake, results, calls, pre, waits, requests, failedAttempts, okAttempts>>

\* time passes
TickClock ==
    /\ now < MaxTime
    /\ now' = now + Tick
    /\ UNCHANGED <<outside, writeFailed>>
    /\ UNCHANGED <<configured, store, nextId, _last_request_time, pc, req, address_key, session, wake,
                   results, ret, calls, pre, waits, requests, failedAttempts, okAttempts>>

(***************************************************************************)
(* batch_geocode and the loop of api_batch_geocode                         *)
(***************************************************************************)
\* the state of geocode_address and of the store
inside ==
    <<configured, store, nextId, now, _last_request_time, pc, req, address_key, session,
      wake, results, ret, calls, pre, waits, requests, failedAttempts, okAttempts,
      writeFailed>>

\* {"street": "1 ELM ST", "city": "KENT", "zip_code": "98101"}: an item without "state"
AddrNoState ==
    [street |-> AddrPlain.street, city |-> AddrPlain.city, zip_code |-> AddrPlain.zip_code]

\* the address dictionaries a batch may hold
BatchItems == Addresses \cup {AddrNoState}

\* the lists of at most MaxBatch items
BatchInputs ==
    UNION {[1..n -> BatchItems] : n \in 0..MaxBatch}

\* addr.get('street', ''), addr.get('city', ''), addr.get('state', 'WA'),
\* addr.get('zip_code', '')
Arguments(addr) ==
    [street |-> IF "street" \in DOMAIN addr THEN addr.street ELSE << >>,
     city |-> IF "city" \in DOMAIN addr THEN addr.city ELSE << >>,
     state |-> IF "state" \in DOMAIN addr THEN addr.state ELSE <<"W", "A">>,
     zip_code |-> IF "zip_code" \in DOMAIN addr THEN addr.zip_code ELSE << >>]

\* batch_geocode(addresses, progress_callback): results = [], total = len(addresses)
batch_geocode(p) ==
    /\ _geocoding_service = "GeocodingService"
    /\ batch.state = "idle"
    /\ pc[p] = "idle"
    /\ \E addresses \in BatchInputs, progress_callback \in BOOLEAN :
          batch' = [state |-> "running", route |-> FALSE, addresses |-> addresses,
                    callback |-> progress_callback, results |-> << >>,
                    progress |-> << >>]
    /\ UNCHANGED <<inside, http, GOOGLE_MAPS_API_KEY, _geocoding_service, init_raised, stats,
                   norm>>

\* POST /geocoding/api/geocode/batch: an empty list is answered with 400, a list of
\* more than 100 items too; otherwise the same loop runs without a callback
api_batch_geocode(p) ==
    /\ _geocoding_service = "GeocodingService"
    /\ batch.state = "idle"
    /\ pc[p] = "idle"
    /\ \E addresses \in BatchInputs :
          batch' = [state |-> IF addresses = << >> \/ Len(addresses) > 100
                              THEN "error_400" ELSE "running",
                    route |-> TRUE, addresses |-> addresses, callback |-> FALSE,
                    results |-> << >>, progress |-> << >>]
    /\ UNCHANGED <<inside, http, GOOGLE_MAPS_API_KEY, _geocoding_service, init_raised, stats,
                   norm>>

\* the loop body: result = self.geocode_address(...) for the next item, with the
\* default force_refresh=False
BatchCall(p) ==
    /\ batch.state = "running"
    /\ Len(batch.results) < Len(batch.addresses)
    /\ Enter(p, Arguments(batch.addresses[Len(batch.results) + 1]), FALSE)

\* the loop body as it would be if the progress were reported from zero
BatchAppend_from_zero(p) ==
    /\ batch.state = "running"
    /\ pc[p] = "done"
    /\ Return(p)
    /\ LET i == Len(batch.results)
           total == Len(batch.addresses)
       IN  batch' =
             IF ret[p] = Raised
             THEN [batch EXCEPT !.state = IF batch.route THEN "error_500" ELSE "raised"]
             ELSE [batch EXCEPT
                      !.results = Append(@, [input |-> batch.addresses[i + 1],
                                             result |-> ret[p]]),
                      !.progress = IF batch.callback THEN Append(@, <<i, total>>)
                                   ELSE @]
    /\ UNCHANGED <<http, GOOGLE_MAPS_API_KEY, _geocoding_service, init_raised, stats, norm>>

\* the loop body after the call: results.append({'input': addr, 'result': result}) and
\* progress_callback(i + 1, total); an exception of geocode_address is not caught by
\* batch_geocode and leaves it, the route's except answers it with 500
BatchAppend(p) ==
    /\ batch.state = "running"
    /\ pc[p] = "done"
    /\ Return(p)
    /\ LET i == Len(batch.results)
           total == Len(batch.addresses)
       IN  batch' =
             IF ret[p] = Raised
             THEN [batch EXCEPT !.state = IF batch.route THEN "error_500" ELSE "raised"]
             ELSE [batch EXCEPT
                      !.results = Append(@, [input |-> batch.addresses[i + 1],
                                             result |-> ret[p]]),
                      !.progress = IF batch.callback THEN Append(@, <<i + 1, total>>)
                                   ELSE @]
    /\ UNCHANGED <<http, GOOGLE_MAPS_API_KEY, _geocoding_service, init_raised, stats, norm>>

\* return results / the JSONResponse with the list
BatchReturn(p) ==
    /\ batch.state = "running"
    /\ pc[p] = "idle"
    /\ Len(batch.results) = Len(batch.addresses)
    /\ batch' = [batch EXCEPT !.state = "returned"]
    /\ UNCHANGED <<inside, http, GOOGLE_MAPS_API_KEY, _geocoding_service, init_raised, stats,
                   norm>>

\* sequential use: the first caller makes every call, one after the other
Alone(p) == \A q \in Callers : p <= q

\* sequential use of the service
Next ==
    \/ \E p \in Callers : Alone(p) /\ geocode_address(p)
    \/ \E p \in Callers : Alone(p) /\ refresh_cache_entry(p)
    \/ \E p \in Callers : Alone(p) /\ Lookup(p)
    \/ \E p \in Callers : Alone(p) /\ HitCommit(p)
    \/ \E p \in Callers : Alone(p) /\ HitReturn(p)
    \/ \E p \in Callers : Alone(p) /\ RateLimit(p)
    \/ \E p \in Callers : Alone(p) /\ Sleep(p)
    \/ \E p \in Callers : Alone(p) /\ Stamp(p)
    \/ \E p \in Callers : Alone(p) /\ Request(p)
    \/ \E p \in Callers : Alone(p) /\ RecordErrorQuery(p)
    \/ \E p \in Callers : Alone(p) /\ RecordErrorCommit(p)
    \/ \E p \in Callers : Alone(p) /\ UpsertQuery(p)
    \/ \E p \in Callers : Alone(p) /\ UpsertCommit(p)
    \/ \E p \in Callers : Alone(p) /\ FreshReturn(p)
    \/ \E p \in Callers : Alone(p) /\ Except(p)
    \/ \E p \in Callers : Alone(p) /\ Finish(p)
    \/ TickClock

Spec == Init /\ [][Next]_vars

\* concurrent use: the callers' steps interleave
ConcNext ==
    \/ \E p \in Callers : calls < MaxConcCalls /\ geocode_address(p)
    \/ \E p \in Callers : calls < MaxConcCalls /\ refresh_cache_entry(p)
    \/ \E p \in Callers : Lookup(p)
    \/ \E p \in Callers : HitCommit(p)
    \/ \E p \in Callers : HitReturn(p)
    \/ \E p \in Callers : RateLimit(p)
    \/ \E p \in Callers : Sleep(p)
    \/ \E p \in Callers : Stamp(p)
    \/ \E p \in Callers : Request(p)
    \/ \E p \in Callers : RecordErrorQuery(p)
    \/ \E p \in Callers : RecordErrorCommit(p)
    \/ \E p \in Callers : UpsertQuery(p)
    \/ \E p \in Callers : UpsertCommit(p)
    \/ \E p \in Callers : FreshReturn(p)
    \/ \E p \in Callers : Except(p)
    \/ \E p \in Callers : Finish(p)
    \/ TickClock

ConcSpec == Init /\ [][ConcNext]_vars

(***************************************************************************)
(* Concurrent calls on a table that already holds a geocoded entry         *)
(***************************************************************************)
\* the candidate the entry was geocoded from: 47.6062095/-122.3320708, RANGE_INTERPOLATED
RangeCandidate == CHOOSE c \in Candidates : c.location_type = "RANGE_INTERPOLATED"

\* a later answer of the provider for the same place: 47.61/-122.33, GEOMETRIC_CENTER,
\* the formatted_address and place_id as before
CenterCandidate ==
    [lat |-> <<476100000>>, lng |-> <<0 - 1223300000>>, location_type |-> "GEOMETRIC_CENTER",
     formatted_address |-> "Elm St, Kent, WA", place_id |-> "def456"]

\* the provider call, which may also answer with the later candidate
RequestAgain(p) ==
    RequestFrom(p, ProviderOutcomes \cup {[kind |-> "ok", first |-> CenterCandidate]})

\* the state after one geocode_address("1 ELM ST", "KENT", "WA", "98101") on an empty
\* table that the provider answered with RangeCandidate
WarmInit ==
    /\ configured = TRUE
    /\ store = Insert({}, SuccessRow(1, KeyOf(AddrPlain), AddrPlain, RangeCandidate))
    /\ nextId = 2
    /\ now = StartTime
    /\ _last_request_time = StartTime
    /\ pc = [p \in Callers |-> "idle"]
    /\ req = [p \in Callers |-> NoRequest]
    /\ address_key = [p \in Callers |-> <<>>]
    /\ session = [p \in Callers |-> NoSession]
    /\ wake = [p \in Callers |-> 0]
    /\ results = [p \in Callers |-> NoOutcome]
    /\ ret = [p \in Callers |-> Pending]
    /\ calls = 1
    /\ pre = [p \in Callers |-> NoRow]
    /\ waits = [p \in Callers |-> 0]
    /\ requests = [p \in Callers |-> 0]
    /\ failedAttempts = [k \in Keys |-> 0]
    /\ okAttempts = [k \in Keys |-> IF k = KeyOf(AddrPlain) THEN 1 ELSE 0]
    /\ writeFailed = [p \in Callers |-> FALSE]
    /\ GOOGLE_MAPS_API_KEY = TRUE
    /\ _geocoding_service = "GeocodingService"
    /\ init_raised = FALSE
    /\ batch = NoBatch
    /\ stats = NoStats
    /\ http = NoHttp
    /\ norm = NoNorm

\* two callers at once, MaxConcCalls calls after the first one
WarmNext ==
    \/ \E p \in Callers : calls < 1 + MaxConcCalls /\ geocode_address(p)
    \/ \E p \in Callers : calls < 1 + MaxConcCalls /\ refresh_cache_entry(p)
    \/ \E p \in Callers : Lookup(p)
    \/ \E p \in Callers : HitCommit(p)
    \/ \E p \in Callers : HitReturn(p)
    \/ \E p \in Callers : RateLimit(p)
    \/ \E p \in Callers : Sleep(p)
    \/ \E p \in Callers : Stamp(p)
    \/ \E p \in Callers : RequestAgain(p)
    \/ \E p \in Callers : RecordErrorQuery(p)
    \/ \E p \in Callers : RecordErrorCommit(p)
    \/ \E p \in Callers : UpsertQuery(p)
    \/ \E p \in Callers : UpsertCommit(p)
    \/ \E p \in Callers : FreshReturn(p)
    \/ \E p \in Callers : Except(p)
    \/ \E p \in Callers : Finish(p)
    \/ TickClock

WarmSpec == WarmInit /\ [][WarmNext]_vars

\* one run of batch_geocode on an empty table
BatchNext ==
    \/ \E p \in Callers : Alone(p) /\ batch_geocode(p)
    \/ \E p \in Callers : Alone(p) /\ BatchCall(p)
    \/ \E p \in Callers : Alone(p) /\ Lookup(p)
    \/ \E p \in Callers : Alone(p) /\ HitCommit(p)
    \/ \E p \in Callers : Alone(p) /\ HitReturn(p)
    \/ \E p \in Callers : Alone(p) /\ RateLimit(p)
    \/ \E p \in Callers : Alone(p) /\ Sleep(p)
    \/ \E p \in Callers : Alone(p) /\ Stamp(p)
    \/ \E p \in Callers : Alone(p) /\ Request(p)
    \/ \E p \in Callers : Alone(p) /\ RecordErrorQuery(p)
    \/ \E p \in Callers : Alone(p) /\ RecordErrorCommit(p)
    \/ \E p \in Callers : Alone(p) /\ UpsertQuery(p)
    \/ \E p \in Callers : Alone(p) /\ UpsertCommit(p)
    \/ \E p \in Callers : Alone(p) /\ FreshReturn(p)
    \/ \E p \in Callers : Alone(p) /\ Except(p)
    \/ \E p \in Callers : Alone(p) /\ BatchAppend(p)
    \/ \E p \in Callers : Alone(p) /\ BatchReturn(p)
    \/ TickClock

BatchSpec == Init /\ [][BatchNext]_vars

\* sequential use with a store that may fail, or that was never configured
FaultInit ==
    /\ configured \in BOOLEAN
    /\ store = {}
    /\ nextId = 1
    /\ now = StartTime
    /\ _last_request_time = 0
    /\ pc = [p \in Callers |-> "idle"]
    /\ req = [p \in Callers |-> NoRequest]
    /\ address_key = [p \in Callers |-> <<>>]
    /\ session = [p \in Callers |-> NoSession]
    /\ wake = [p \in Callers |-> 0]
    /\ results = [p \in Callers |-> NoOutcome]
    /\ ret = [p \in Callers |-> Pending]
    /\ calls = 0
    /\ pre = [p \in Callers |-> NoRow]
    /\ waits = [p \in Callers |-> 0]
    /\ requests = [p \in Callers |-> 0]
    /\ failedAttempts = [k \in Keys |-> 0]
    /\ okAttempts = [k \in Keys |-> 0]
    /\ writeFailed = [p \in Callers |-> FALSE]
    /\ GOOGLE_MAPS_API_KEY = TRUE
    /\ _geocoding_service = "GeocodingService"
    /\ init_raised = FALSE
    /\ batch = NoBatch
    /\ stats = NoStats
    /\ http = NoHttp
    /\ norm = NoNorm

FaultNext ==
    \/ Next
    \/ \E p \in Callers : Alone(p) /\ StoreFault(p)
    \/ \E p \in Callers : Alone(p) /\ RecordErrorFault(p)
    \/ \E p \in Callers : Alone(p) /\ RollbackFault(p)

FaultSpec == FaultInit /\ [][FaultNext]_vars

\* one run of batch_geocode or of the batch route, with a store that may fail or that
\* was never configured
BatchFaultNext ==
    \/ \E p \in Callers : Alone(p) /\ batch_geocode(p)
    \/ \E p \in Callers : Alone(p) /\ api_batch_geocode(p)
    \/ \E p \in Callers : Alone(p) /\ BatchCall(p)
    \/ \E p \in Callers : Alone(p) /\ Lookup(p)
    \/ \E p \in Callers : Alone(p) /\ HitCommit(p)
    \/ \E p \in Callers : Alone(p) /\ HitReturn(p)
    \/ \E p \in Callers : Alone(p) /\ RateLimit(p)
    \/ \E p \in Callers : Alone(p) /\ Sleep(p)
    \/ \E p \in Callers : Alone(p) /\ Stamp(p)
    \/ \E p \in Callers : Alone(p) /\ Request(p)
    \/ \E p \in Callers : Alone(p) /\ RecordErrorQuery(p)
    \/ \E p \in Callers : Alone(p) /\ RecordErrorCommit(p)
    \/ \E p \in Callers : Alone(p) /\ UpsertQuery(p)
    \/ \E p \in Callers : Alone(p) /\ UpsertCommit(p)
    \/ \E p \in Callers : Alone(p) /\ FreshReturn(p)
    \/ \E p \in Callers : Alone(p) /\ Except(p)
    \/ \E p \in Callers : Alone(p) /\ StoreFault(p)
    \/ \E p \in Callers : Alone(p) /\ RecordErrorFault(p)
    \/ \E p \in Callers : Alone(p) /\ RollbackFault(p)
    \/ \E p \in Callers : Alone(p) /\ BatchAppend(p)
    \/ \E p \in Callers : Alone(p) /\ BatchReturn(p)
    \/ TickClock

BatchFaultSpec == FaultInit /\ [][BatchFaultNext]_vars

(***************************************************************************)
(* _normalize_address_key on its own: the key of a key, and the key of an  *)
(* address written in another way                                          *)
(***************************************************************************)
\* how many unit designators follow the street of an input
MaxUnits == 2

\* "1 Elm Street", "5 STEWART", " 12  NORTH oak road "
NormBases ==
    { <<"1"," ","E","l","m"," ","S","t","r","e","e","t">>,
      <<"5"," ","S","T","E","W","A","R","T">>,
      <<" ","1","2"," "," ","N","O","R","T","H"," ","o","a","k"," ","r","o","a","d"," ">> }

\* " APT 4", " BLDG 2", " #4-B"
UnitSuffixes ==
    { <<" ","A","P","T"," ","4">>,
      <<" ","B","L","D","G"," ","2">>,
      <<" ","#","4","-","B">> }

\* street s followed by up to n unit designators
RECURSIVE WithUnits(_, _)
WithUnits(s, n) ==
    IF n = 0 THEN {s}
    ELSE {s} \cup UNION {WithUnits(s \o u, n - 1) : u \in UnitSuffixes}

NormStreets == UNION {WithUnits(b, MaxUnits) : b \in NormBases}

\* "KENT", " new  york "
NormCities ==
    { <<"K","E","N","T">>,
      <<" ","n","e","w"," "," ","y","o","r","k"," ">> }

\* "WA", " wa "
NormStates ==
    { <<"W","A">>,
      <<" ","w","a"," ">> }

\* "", "98101", "98101-1234", "9810 1234"
NormZips ==
    { <<>>,
      <<"9","8","1","0","1">>,
      <<"9","8","1","0","1","-","1","2","3","4">>,
      <<"9","8","1","0"," ","1","2","3","4">> }

\* the arguments (street, city, state, zip_code) of _normalize_address_key
NormInputs == [street : NormStreets, city : NormCities, state : NormStates, zip_code : NormZips]

\* the key of address a
KeyFor(a) == _normalize_address_key(a.street, a.city, a.state, a.zip_code)

\* the components of a key: what is between the '|' of the f-string
RECURSIVE SplitFrom(_, _, _)
SplitFrom(s, i, cur) ==
    IF i > Len(s) THEN <<cur>>
    ELSE IF s[i] = "|" THEN <<cur>> \o SplitFrom(s, i + 1, <<>>)
         ELSE SplitFrom(s, i + 1, Append(cur, s[i]))

split(s) == SplitFrom(s, 1, <<>>)

\* str.lower() on one character
LowerChar(c) ==
    IF c \in Range(UpperChars)
    THEN LowerChars[CHOOSE i \in DOMAIN UpperChars : UpperChars[i] = c]
    ELSE c

\* str.lower()
lower(s) == [i \in DOMAIN s |-> LowerChar(s[i])]

\* s with every blank doubled and a blank at each end
RECURSIVE Widen(_, _)
Widen(s, i) ==
    IF i > Len(s) THEN <<" ">>
    ELSE (IF IsSpace(s[i]) THEN <<" ", " ">> ELSE <<s[i]>>) \o Widen(s, i + 1)

\* the ways of writing an address that the normalisation is meant to undo: letter case,
\* whitespace, a trailing unit designator with its number, the abbreviation of suffixes
\* and directionals, a ZIP+4 suffix
Variations == {"case", "whitespace", "unit", "style", "zip4"}

\* address a written in way t
Variation(t, a) ==
    CASE t = "case" ->
            [street |-> lower(a.street), city |-> lower(a.city), state |-> lower(a.state),
             zip_code |-> a.zip_code]
      [] t = "whitespace" ->
            [street |-> <<" ">> \o Widen(a.street, 1), city |-> <<" ">> \o Widen(a.city, 1),
             state |-> <<" ">> \o a.state \o <<" ">>,
             zip_code |-> <<" ">> \o a.zip_code \o <<" ">>]
      [] t = "unit" -> [a EXCEPT !.street = @ \o <<" ","A","P","T"," ","4">>]
      [] t = "style" -> [a EXCEPT !.street = Abbreviate(@)]
      [] t = "zip4" ->
            [a EXCEPT !.zip_code = IF Len(@) = 5 THEN @ \o <<"-","1","2","3","4">> ELSE @]

\* the state no action of this section touches
beside == <<GOOGLE_MAPS_API_KEY, _geocoding_service, init_raised, batch, stats, http>>

\* address_key = self._normalize_address_key(street, city, state, zip_code)
NormalizeKey ==
    /\ norm.stage = "input"
    /\ norm' = [stage |-> "key", x |-> norm.x, address_key |-> KeyFor(norm.x)]
    /\ UNCHANGED <<inside, beside>>

\* the key is split back into its components
SplitKey ==
    /\ norm.stage = "key"
    /\ norm' = [stage |-> "components", x |-> norm.x, address_key |-> norm.address_key,
                components |-> split(norm.address_key)]
    /\ UNCHANGED <<inside, beside>>

\* self._normalize_address_key(*components)
NormalizeAgain ==
    /\ norm.stage = "components"
    /\ Len(norm.components) = 4
    /\ norm' = [stage |-> "again", x |-> norm.x, address_key |-> norm.address_key,
                components |-> norm.components,
                again |-> _normalize_address_key(norm.components[1], norm.components[2],
                                                 norm.components[3], norm.components[4])]
    /\ UNCHANGED <<inside, beside>>

\* the same address arrives written in another way
Rewrite ==
    /\ norm.stage = "key"
    /\ \E t \in Variations :
          norm' = [stage |-> "variant", x |-> norm.x, address_key |-> norm.address_key,
                   way |-> t, y |-> Variation(t, norm.x)]
    /\ UNCHANGED <<inside, beside>>

\* address_key = self._normalize_address_key(...) for the address written the other way
NormalizeRewritten ==
    /\ norm.stage = "variant"
    /\ norm' = [stage |-> "both", x |-> norm.x, address_key |-> norm.address_key,
                way |-> norm.way, y |-> norm.y, other_key |-> KeyFor(norm.y)]
    /\ UNCHANGED <<inside, beside>>

NormInit ==
    /\ configured = TRUE
    /\ store = {}
    /\ nextId = 1
    /\ now = StartTime
    /\ _last_request_time = 0
    /\ pc = [p \in Callers |-> "idle"]
    /\ req = [p \in Callers |-> NoRequest]
    /\ address_key = [p \in Callers |-> <<>>]
    /\ session = [p \in Callers |-> NoSession]
    /\ wake = [p \in Callers |-> 0]
    /\ results = [p \in Callers |-> NoOutcome]
    /\ ret = [p \in Callers |-> Pending]
    /\ calls = 0
    /\ pre = [p \in Callers |-> NoRow]
    /\ waits = [p \in Callers |-> 0]
    /\ requests = [p \in Callers |-> 0]
    /\ failedAttempts = [k \in Keys |-> 0]
    /\ okAttempts = [k \in Keys |-> 0]
    /\ writeFailed = [p \in Callers |-> FALSE]
    /\ GOOGLE_MAPS_API_KEY = TRUE
    /\ _geocoding_service = "GeocodingService"
    /\ init_raised = FALSE
    /\ batch = NoBatch
    /\ stats = NoStats
    /\ http = NoHttp
    /\ norm \in {[stage |-> "input", x |-> a] : a \in NormInputs}

NormNext ==
    \/ NormalizeKey
    \/ SplitKey
    \/ NormalizeAgain
    \/ Rewrite
    \/ NormalizeRewritten

NormSpec == NormInit /\ [][NormNext]_vars

(***************************************************************************)
(* GeocodingService.get_cache_stats                                        *)
(***************************************************************************)
\* the literal 0.005 (dollars per request), in thousandths of a dollar
PricePerRequest == 5

\* Python values of the arithmetic of get_cache_stats, with their types
IntValue(n) == [type |-> "int", value |-> n]
DecimalValue(n) == [type |-> "Decimal", value |-> n]
FloatValue(n) == [type |-> "float", value |-> n]
NoneValue == [type |-> "NoneType"]
TypeError == [type |-> "TypeError"]

RECURSIVE SumUsage(_)
SumUsage(rows) ==
    IF rows = {} THEN 0
    ELSE LET r == CHOOSE x \in rows : TRUE
         IN  r.usage_count + SumUsage(rows \ {r})

\* session.query(func.sum(GeocodeCache.usage_count)).scalar(): SUM() over an INT column is
\* a DECIMAL in MariaDB, which the driver hands over as decimal.Decimal; NULL over no rows
sum_usage_count(rows) == IF rows = {} THEN NoneValue ELSE DecimalValue(SumUsage(rows))

\* x or 0
Or0(x) == IF x.type = "NoneType" \/ x.value = 0 THEN IntValue(0) ELSE x

\* x - n for an int n: a Decimal stays a Decimal
Minus(x, n) == [x EXCEPT !.value = @ - n]

\* x * 0.005: int * float is a float, Decimal * float raises TypeError
TimesPrice(x) == IF x.type = "int" THEN FloatValue(x.value * PricePerRequest) ELSE TypeError

\* dict(query(accuracy, count(id)).filter(accuracy IS NOT NULL).group_by(accuracy))
accuracy_breakdown(rows) ==
    [acc \in {r.accuracy : r \in {x \in rows : x.accuracy # None}} |->
        Cardinality({r \in rows : r.accuracy = acc})]

\* get_cache_stats, called between two calls of geocode_address
get_cache_stats ==
    /\ _geocoding_service = "GeocodingService"
    /\ \A p \in Callers : pc[p] = "idle"
    /\ stats = NoStats
    /\ LET total == Cardinality(store)
           valid == Cardinality({r \in store : r.latitude # NoneFloat})
           failed == Cardinality({r \in store : r.error_message # None})
           total_usage == Or0(sum_usage_count(store))
           estimated_cost == TimesPrice(IntValue(total))
           estimated_savings == TimesPrice(Minus(total_usage, total))
       IN  stats' =
             IF ~configured THEN [outcome |-> "raised", error |-> "ValueError", entries |-> store]
             ELSE IF estimated_savings = TypeError
             THEN [outcome |-> "raised", error |-> "TypeError", entries |-> store]
             ELSE [outcome |-> "result", entries |-> store,
                   total_cached |-> total, valid |-> valid, failed |-> failed,
                   total_lookups |-> total_usage.value,
                   api_calls_saved |-> Minus(total_usage, total).value,
                   accuracy_breakdown |-> accuracy_breakdown(store),
                   estimated_cost |-> estimated_cost.value,
                   estimated_savings |-> estimated_savings.value]
    /\ UNCHANGED <<inside, http, GOOGLE_MAPS_API_KEY, _geocoding_service, init_raised, batch, norm>>

\* sequential use of the service, ended by one call of get_cache_stats
StatsNext ==
    \/ \E p \in Callers : Alone(p) /\ stats = NoStats /\ geocode_address(p)
    \/ \E p \in Callers : Alone(p) /\ stats = NoStats /\ refresh_cache_entry(p)
    \/ \E p \in Callers : Alone(p) /\ Lookup(p)
    \/ \E p \in Callers : Alone(p) /\ HitCommit(p)
    \/ \E p \in Callers : Alone(p) /\ HitReturn(p)
    \/ \E p \in Callers : Alone(p) /\ RateLimit(p)
    \/ \E p \in Callers : Alone(p) /\ Sleep(p)
    \/ \E p \in Callers : Alone(p) /\ Stamp(p)
    \/ \E p \in Callers : Alone(p) /\ Request(p)
    \/ \E p \in Callers : Alone(p) /\ RecordErrorQuery(p)
    \/ \E p \in Callers : Alone(p) /\ RecordErrorCommit(p)
    \/ \E p \in Callers : Alone(p) /\ UpsertQuery(p)
    \/ \E p \in Callers : Alone(p) /\ UpsertCommit(p)
    \/ \E p \in Callers : Alone(p) /\ FreshReturn(p)
    \/ \E p \in Callers : Alone(p) /\ Except(p)
    \/ \E p \in Callers : Alone(p) /\ Finish(p)
    \/ get_cache_stats
    \/ stats = NoStats /\ TickClock

StatsSpec == Init /\ [][StatsNext]_vars

(***************************************************************************)
(* GeocodingService.__init__ and the singleton of routes_geocoding         *)
(***************************************************************************)
\* __init__ as it would be if a missing key were not checked
init_without_check(api_key) == "GeocodingService"

\* GeocodingService(api_key): the object, or "ValueError" when neither the argument nor
\* the environment gives a key
__init__(api_key) ==
    IF api_key # None \/ GOOGLE_MAPS_API_KEY THEN "GeocodingService" ELSE "ValueError"

\* get_geocoding_service(): the singleton is built on first use, without an argument;
\* when __init__ raises, the singleton stays None and the exception reaches the route
get_geocoding_service ==
    /\ _geocoding_service = None
    /\ \A p \in Callers : pc[p] = "idle"
    /\ LET service == __init__(None)
       IN  IF service = "ValueError"
           THEN /\ init_raised' = TRUE
                /\ UNCHANGED _geocoding_service
           ELSE /\ _geocoding_service' = service
                /\ UNCHANGED init_raised
    /\ UNCHANGED <<inside, http, GOOGLE_MAPS_API_KEY, batch, stats, norm>>

\* a process that starts with or without a key in its environment and no service yet
ConfigInit ==
    /\ configured = TRUE
    /\ store = {}
    /\ nextId = 1
    /\ now = StartTime
    /\ _last_request_time = 0
    /\ pc = [p \in Callers |-> "idle"]
    /\ req = [p \in Callers |-> NoRequest]
    /\ address_key = [p \in Callers |-> <<>>]
    /\ session = [p \in Callers |-> NoSession]
    /\ wake = [p \in Callers |-> 0]
    /\ results = [p \in Callers |-> NoOutcome]
    /\ ret = [p \in Callers |-> Pending]
    /\ calls = 0
    /\ pre = [p \in Callers |-> NoRow]
    /\ waits = [p \in Callers |-> 0]
    /\ requests = [p \in Callers |-> 0]
    /\ failedAttempts = [k \in Keys |-> 0]
    /\ okAttempts = [k \in Keys |-> 0]
    /\ writeFailed = [p \in Callers |-> FALSE]
    /\ GOOGLE_MAPS_API_KEY \in BOOLEAN
    /\ _geocoding_service = None
    /\ init_raised = FALSE
    /\ batch = NoBatch
    /\ stats = NoStats
    /\ http = NoHttp
    /\ norm = NoNorm

ConfigNext ==
    \/ get_geocoding_service
    \/ \E p \in Callers : Alone(p) /\ geocode_address(p)
    \/ \E p \in Callers : Alone(p) /\ refresh_cache_entry(p)
    \/ \E p \in Callers : Alone(p) /\ Lookup(p)
    \/ \E p \in Callers : Alone(p) /\ HitCommit(p)
    \/ \E p \in Callers : Alone(p) /\ HitReturn(p)
    \/ \E p \in Callers : Alone(p) /\ RateLimit(p)
    \/ \E p \in Callers : Alone(p) /\ Sleep(p)
    \/ \E p \in Callers : Alone(p) /\ Stamp(p)
    \/ \E p \in Callers : Alone(p) /\ Request(p)
    \/ \E p \in Callers : Alone(p) /\ RecordErrorQuery(p)
    \/ \E p \in Callers : Alone(p) /\ RecordErrorCommit(p)
    \/ \E p \in Callers : Alone(p) /\ UpsertQuery(p)
    \/ \E p \in Callers : Alone(p) /\ UpsertCommit(p)
    \/ \E p \in Callers : Alone(p) /\ FreshReturn(p)
    \/ \E p \in Callers : Alone(p) /\ Except(p)
    \/ \E p \in Callers : Alone(p) /\ Finish(p)
    \/ TickClock

ConfigSpec == ConfigInit /\ [][ConfigNext]_vars

(***************************************************************************)
(* The geocoding routes and their dependency on get_current_user           *)
(***************************************************************************)
\* the requests one behaviour serves
MaxRequests == 1

\* the rows of portal_users: an active user and a deactivated one; no row has id 3
PortalUsers == {[id |-> 1, is_active |-> TRUE], [id |-> 2, is_active |-> FALSE]}

\* request.session.get('user_id'): None (0 here) without a login, else the id the
\* login stored in the session
SessionUserIds == 0 .. 3

\* get_current_user: None if the session has no user_id, the user's dict if the row
\* exists and is active, None otherwise; it never raises and never redirects
get_current_user(user_id) ==
    IF user_id = 0 THEN NoUser
    ELSE IF \E u \in PortalUsers : u.id = user_id /\ u.is_active
         THEN [id |-> user_id]
         ELSE NoUser

\* the route handlers that call geocode_address with user = Depends(get_current_user)
Handlers == {"geocode_lookup", "api_geocode", "api_batch_geocode"}

\* a request reaches a geocoding route: the framework evaluates the dependency and
\* calls the handler with its value as the parameter user
Receive ==
    /\ http.state \in {"idle", "responded"}
    /\ http.served < MaxRequests
    /\ \A p \in Callers : pc[p] = "idle"
    /\ batch.state = "idle"
    /\ \E handler \in Handlers, user_id \in SessionUserIds :
          http' = [state |-> "handler", handler |-> handler, user_id |-> user_id,
                   user |-> get_current_user(user_id), served |-> http.served + 1]
    /\ UNCHANGED <<inside, GOOGLE_MAPS_API_KEY, _geocoding_service, init_raised, batch,
                   stats, norm>>

\* POST /geocoding/lookup: service.geocode_address(street, city, state, zip_code) is
\* the first statement of the handler; user is only passed on to the template
geocode_lookup(p) ==
    /\ http.state = "handler"
    /\ http.handler = "geocode_lookup"
    /\ \E a \in Addresses : Enter(p, a, FALSE)

\* GET /geocoding/api/geocode: service.geocode_address(street, city, state, zip_code);
\* the handler does not read user
api_geocode(p) ==
    /\ http.state = "handler"
    /\ http.handler = "api_geocode"
    /\ \E a \in Addresses : Enter(p, a, FALSE)

\* the template or JSON response of geocode_lookup and api_geocode
Respond(p) ==
    /\ http.state = "handler"
    /\ http.handler \in {"geocode_lookup", "api_geocode"}
    /\ pc[p] = "done"
    /\ Return(p)
    /\ http' = [http EXCEPT !.state = "responded"]
    /\ UNCHANGED <<GOOGLE_MAPS_API_KEY, _geocoding_service, init_raised, batch, stats,
                   norm>>

\* POST /geocoding/api/geocode/batch: the body is read and the loop starts; the
\* handler does not read user
BatchRequest(p) ==
    /\ http.state = "handler"
    /\ http.handler = "api_batch_geocode"
    /\ api_batch_geocode(p)

\* the JSON response of api_batch_geocode: the list, or the 400 / 500 error
BatchRespond ==
    /\ http.state = "handler"
    /\ http.handler = "api_batch_geocode"
    /\ batch.state \in {"returned", "error_400", "error_500"}
    /\ http' = [http EXCEPT !.state = "responded"]
    /\ batch' = NoBatch
    /\ UNCHANGED <<inside, GOOGLE_MAPS_API_KEY, _geocoding_service, init_raised, stats,
                   norm>>

\* requests served one after the other by the three routes
RouteNext ==
    \/ Receive
    \/ \E p \in Callers : Alone(p) /\ geocode_lookup(p)
    \/ \E p \in Callers : Alone(p) /\ api_geocode(p)
    \/ \E p \in Callers : Alone(p) /\ BatchRequest(p)
    \/ \E p \in Callers : Alone(p) /\ BatchCall(p)
    \/ \E p \in Callers : Alone(p) /\ Lookup(p)
    \/ \E p \in Callers : Alone(p) /\ HitCommit(p)
    \/ \E p \in Callers : Alone(p) /\ HitReturn(p)
    \/ \E p \in Callers : Alone(p) /\ RateLimit(p)
    \/ \E p \in Callers : Alone(p) /\ Sleep(p)
    \/ \E p \in Callers : Alone(p) /\ Stamp(p)
    \/ \E p \in Callers : Alone(p) /\ Request(p)
    \/ \E p \in Callers : Alone(p) /\ RecordErrorQuery(p)
    \/ \E p \in Callers : Alone(p) /\ RecordErrorCommit(p)
    \/ \E p \in Callers : Alone(p) /\ UpsertQuery(p)
    \/ \E p \in Callers : Alone(p) /\ UpsertCommit(p)
    \/ \E p \in Callers : Alone(p) /\ FreshReturn(p)
    \/ \E p \in Callers : Alone(p) /\ Except(p)
    \/ \E p \in Callers : Alone(p) /\ Respond(p)
    \/ \E p \in Callers : Alone(p) /\ BatchAppend(p)
    \/ \E p \in Callers : Alone(p) /\ BatchReturn(p)
    \/ BatchRespond
    \/ TickClock

RouteSpec == Init /\ [][RouteNext]_vars

(***************************************************************************)
(* Vocabulary of the properties                                            *)
(***************************************************************************)
\* caller p is inside a call of geocode_address
InCall(p) == pc[p] # "idle"

\* caller p's call has computed its return value
Returned(p) == pc[p] = "done"

\* the committed entry of the key of p's call
Entry(p) == First(store, address_key[p])

\* a VALID entry: latitude and longitude are present
HasCoordinates(r) == r.latitude # NoneFloat /\ r.longitude # NoneFloat

\* the entry of the key was VALID when p's call started
WasValid(p) == pre[p] # NoRow /\ HasCoordinates(pre[p])

\* the entry of the key existed without coordinates when p's call started
WasErrored(p) == pre[p] # NoRow /\ ~HasCoordinates(pre[p])

\* the provider request of p's call failed or found nothing
ProviderFailed(p) == results[p].kind \in {"error", "empty"}

\* p's call is on the provider path, between the cache check and the store write
OnProviderPath(p) == pc[p] \in {"rate_limit", "sleep", "stamp", "request"}

\* the six result columns of two rows agree
SameFix(r1, r2) ==
    /\ r1.latitude = r2.latitude
    /\ r1.longitude = r2.longitude
    /\ r1.accuracy = r2.accuracy
    /\ r1.confidence = r2.confidence
    /\ r1.formatted_address = r2.formatted_address
    /\ r1.place_id = r2.place_id

\* the confidence the documentation gives for a location type
DocumentedConfidence(location_type) ==
    IF location_type = "ROOFTOP" THEN "high"
    ELSE IF location_type \in {"RANGE_INTERPOLATED", "GEOMETRIC_CENTER"} THEN "medium"
    ELSE "low"

(***************************************************************************)
(* C1  Cache-first lookup                                                  *)
(***************************************************************************)
\* C1: a call without force_refresh on a key whose entry is valid never waits in the
\* rate limiter and never asks the provider, and it returns cached=True with exactly
\* the stored lat, lng, accuracy, confidence, formatted_address and place_id.
C1_CacheFirst ==
    \A p \in Callers :
        (InCall(p) /\ ~req[p].force_refresh /\ WasValid(p)) =>
            /\ ~OnProviderPath(p)
            /\ waits[p] = 0
            /\ requests[p] = 0
            /\ Returned(p) =>
                /\ ret[p].outcome = "result"
                /\ ret[p].cached = TRUE
                /\ ret[p].lat = pre[p].latitude
                /\ ret[p].lng = pre[p].longitude
                /\ ret[p].accuracy = pre[p].accuracy
                /\ ret[p].confidence = pre[p].confidence
                /\ ret[p].formatted_address = pre[p].formatted_address
                /\ ret[p].place_id = pre[p].place_id
                /\ SameFix(Entry(p), pre[p])

\* a cache hit on an entry that a forced refresh had failed on (it carries an error)
C1_Witness ==
    \E p \in Callers :
        /\ Returned(p) /\ ~req[p].force_refresh /\ WasValid(p)
        /\ pre[p].error_message # None
        /\ ret[p].outcome = "result"

(***************************************************************************)
(* C2  Cache hit monotonicity                                              *)
(***************************************************************************)
\* C2: every successful call without force_refresh on an existing entry raises its
\* usage_count by exactly 1, and leaves the latitude and longitude of a valid entry
\* unchanged.
C2_HitMonotonic ==
    \A p \in Callers :
        (Returned(p) /\ ~req[p].force_refresh /\ ret[p].outcome = "result"
            /\ pre[p] # NoRow) =>
            /\ Entry(p) # NoRow
            /\ Entry(p).id = pre[p].id
            /\ Entry(p).usage_count = pre[p].usage_count + 1
            /\ HasCoordinates(pre[p]) =>
                /\ Entry(p).latitude = pre[p].latitude
                /\ Entry(p).longitude = pre[p].longitude

\* the second cache hit in a row on the same key
C2_Witness ==
    \E p \in Callers :
        /\ Returned(p) /\ ~req[p].force_refresh /\ ret[p].outcome = "result"
        /\ ret[p].cached = TRUE
        /\ pre[p].usage_count = 2
        /\ Entry(p).usage_count = 3

(***************************************************************************)
(* C3  The service boundary is a firewall                                  *)
(***************************************************************************)
\* C3: no call of geocode_address lets an exception reach its caller: every call
\* returns a populated result or None, whatever the provider and the store do.
C3_Firewall == \A p \in Callers : ret[p] # Raised

(***************************************************************************)
(* C4  Provider failure is recorded, not raised                            *)
(***************************************************************************)
\* C4: when the provider call fails or returns zero results, the call returns None and
\* the store then holds an entry for the key with error_message set ("No results" for
\* zero results, the provider's error text otherwise) and last_error_at set.
C4_FailureRecorded ==
    \A p \in Callers :
        (Returned(p) /\ ProviderFailed(p)) =>
            /\ ret[p] = ReturnedNone
            /\ Entry(p) # NoRow
            /\ Entry(p).error_message =
                  (IF results[p].kind = "empty" THEN "No results" ELSE results[p].message)
            /\ Entry(p).error_message # None
            /\ Entry(p).last_error_at # Never

\* a zero-results answer for a key that had no entry
C4_Witness ==
    \E p \in Callers :
        /\ Returned(p) /\ results[p].kind = "empty" /\ pre[p] = NoRow
        /\ Entry(p).error_message = "No results"

(***************************************************************************)
(* C5  An error does not corrupt a prior success                           *)
(***************************************************************************)
\* a failed call on a VALID key leaves the six result columns of its entry untouched
C5_FixKept ==
    \A p \in Callers :
        (Returned(p) /\ ProviderFailed(p) /\ WasValid(p)) =>
            /\ Entry(p) # NoRow
            /\ Entry(p).id = pre[p].id
            /\ SameFix(Entry(p), pre[p])

\* no step removes an entry, changes its key or takes the coordinates of a VALID entry
C5_NeverInvalidated ==
    \A r \in store :
        \E r2 \in store' :
            /\ r2.id = r.id
            /\ r2.address_key = r.address_key
            /\ HasCoordinates(r) => HasCoordinates(r2)

\* C5: a call (forced or not) on a VALID key whose provider request fails or finds
\* nothing leaves the stored latitude, longitude, accuracy, confidence,
\* formatted_address and place_id untouched; and no geocode operation removes an entry
\* or turns a VALID entry into one without coordinates.
C5_ErrorKeepsSuccess == [](C5_FixKept) /\ [][C5_NeverInvalidated]_vars

\* a forced refresh of a VALID entry whose provider request failed
C5_Witness ==
    \E p \in Callers :
        /\ Returned(p) /\ req[p].force_refresh /\ WasValid(p)
        /\ results[p].kind = "error"
        /\ Entry(p).error_message # None /\ HasCoordinates(Entry(p))

(***************************************************************************)
(* C6  Successful fresh geocode                                            *)
(***************************************************************************)
\* C6: a call that gets a candidate from the provider (cache miss or forced refresh)
\* returns cached=False with the candidate's coordinates and the confidence of its
\* location type; afterwards the entry holds those coordinates, accuracy and
\* confidence, has no error_message, and has usage_count 1 if this call created it and
\* its previous value plus 1 otherwise; a following call without force_refresh on an
\* entry so created returns cached=True with the same coordinates and usage_count 2.
C6_FreshGeocode ==
    \A p \in Callers :
        /\ (Returned(p) /\ results[p].kind = "ok") =>
            LET c == results[p].first
                accuracy == IF c.location_type = None THEN "UNKNOWN" ELSE c.location_type
            IN  /\ ret[p].outcome = "result"
                /\ ret[p].cached = FALSE
                /\ ret[p].lat = c.lat
                /\ ret[p].lng = c.lng
                /\ ret[p].accuracy = accuracy
                /\ ret[p].confidence = DocumentedConfidence(accuracy)
                /\ Entry(p) # NoRow
                /\ ret[p].cache_id = Entry(p).id
                /\ Entry(p).latitude = c.lat
                /\ Entry(p).longitude = c.lng
                /\ Entry(p).accuracy = accuracy
                /\ Entry(p).confidence = DocumentedConfidence(accuracy)
                /\ Entry(p).error_message = None
                /\ Entry(p).usage_count =
                      (IF pre[p] = NoRow THEN 1 ELSE pre[p].usage_count + 1)
        /\ (Returned(p) /\ ~req[p].force_refresh /\ WasValid(p)
                /\ pre[p].usage_count = 1) =>
                /\ ret[p].outcome = "result"
                /\ ret[p].cached = TRUE
                /\ ret[p].lat = pre[p].latitude
                /\ ret[p].lng = pre[p].longitude
                /\ Entry(p).usage_count = 2

\* a fresh geocode of 47.6062095, -122.3320708 has returned those coordinates, and the
\* entry it wrote holds other ones
C6_Witness ==
    \E p \in Callers :
        /\ Returned(p) /\ results[p].kind = "ok"
        /\ ret[p].outcome = "result"
        /\ ret[p].lat = results[p].first.lat
        /\ Entry(p) # NoRow
        /\ Entry(p).latitude # ret[p].lat

(***************************************************************************)
(* C7  Force refresh bypasses the cache                                    *)
(***************************************************************************)
\* C7: a call with force_refresh=True never reads the cache, performs the rate-limiter
\* wait and exactly one provider request, also when a valid entry exists, and never
\* returns cached=True.
C7_ForceBypasses ==
    \A p \in Callers :
        (InCall(p) /\ req[p].force_refresh) =>
            /\ pc[p] \notin {"lookup", "hit_commit", "hit_return"}
            /\ Returned(p) =>
                /\ waits[p] = 1
                /\ requests[p] = 1
                /\ ret[p].outcome = "result" => ret[p].cached = FALSE

\* a forced refresh of a VALID entry that returned a fresh result
C7_Witness ==
    \E p \in Callers :
        /\ Returned(p) /\ req[p].force_refresh /\ WasValid(p)
        /\ ret[p].outcome = "result"
        /\ requests[p] = 1

(***************************************************************************)
(* C8  Re-entry from ERRORED                                               *)
(***************************************************************************)
\* no call is in progress
Quiet == \A p \in Callers : pc[p] \in {"idle", "done"}

\* C8: a call (forced or not) on a key whose entry has no coordinates waits in the rate
\* limiter and asks the provider again; if that attempt fails the retry_count grows by
\* exactly 1 and the entry stays without coordinates, if it succeeds the entry becomes
\* VALID; and between calls the retry_count of every entry is the number of failed
\* provider attempts for its key.
C8_ReentryFromErrored ==
    /\ \A p \in Callers :
        (InCall(p) /\ WasErrored(p)) =>
            /\ pc[p] \notin {"hit_commit", "hit_return"}
            /\ Returned(p) =>
                /\ waits[p] = 1
                /\ requests[p] = 1
                /\ Entry(p) # NoRow
                /\ Entry(p).id = pre[p].id
                /\ ProviderFailed(p) =>
                    /\ Entry(p).retry_count = pre[p].retry_count + 1
                    /\ ~HasCoordinates(Entry(p))
                /\ results[p].kind = "ok" => HasCoordinates(Entry(p))
    /\ Quiet =>
        \A k \in Keys :
            IF First(store, k) = NoRow THEN failedAttempts[k] = 0
            ELSE First(store, k).retry_count = failedAttempts[k]

\* an entry without coordinates whose retry failed again
C8_Witness ==
    \E p \in Callers :
        /\ Returned(p) /\ WasErrored(p) /\ ProviderFailed(p)
        /\ pre[p].retry_count = 1
        /\ Entry(p).retry_count = 2

(***************************************************************************)
(* C9  One entry per key that counts every attempt                         *)
(***************************************************************************)
\* C9: under any interleaving of concurrent calls the store never holds two rows with
\* the same address_key, and once the calls have returned the entry of every key that
\* was attempted exists, its retry_count counts every failed provider attempt and its
\* usage_count every successful one.
C9_OneEntryCountsAll ==
    /\ \A r1, r2 \in store : r1.address_key = r2.address_key => r1 = r2
    /\ Quiet =>
        \A k \in Keys :
            (okAttempts[k] + failedAttempts[k] > 0) =>
                /\ First(store, k) # NoRow
                /\ First(store, k).retry_count >= failedAttempts[k]
                /\ First(store, k).usage_count >= okAttempts[k]

(***************************************************************************)
(* C10  At most one provider call per miss                                 *)
(***************************************************************************)
\* caller p has missed the cache, has asked the provider and has not yet written
AskedNotWritten(p) ==
    /\ ~req[p].force_refresh
    /\ requests[p] = 1
    /\ pc[p] \in {"record_error", "record_commit", "upsert_query", "upsert_commit"}

\* C10: two concurrent calls without force_refresh for the same key that has no valid
\* entry never both call the provider for that miss.
C10_OneProviderCallPerMiss ==
    \A p, q \in Callers :
        (p # q /\ address_key[p] = address_key[q]) =>
            ~(AskedNotWritten(p) /\ AskedNotWritten(q))

(***************************************************************************)
(* C11  Insert-race fallback                                               *)
(***************************************************************************)
\* C11: every call that got a candidate from the provider returns a populated result,
\* also the second of two concurrent calls for an unseen key, whose insert hits the
\* unique index on address_key: it falls back to updating the row the first one wrote.
C11_InsertRaceFallback ==
    \A p \in Callers :
        (Returned(p) /\ results[p].kind = "ok") => ret[p].outcome = "result"

(***************************************************************************)
(* C12  Sequential rate limiting                                           *)
(***************************************************************************)
\* the provider requests answered so far (with an error, no result or a candidate)
RequestsOf(k) == failedAttempts[k] + okAttempts[k]

RECURSIVE SumRequests(_)
SumRequests(ks) ==
    IF ks = {} THEN 0
    ELSE LET k == CHOOSE x \in ks : TRUE
         IN  RequestsOf(k) + SumRequests(ks \ {k})

TotalRequests == SumRequests(Keys)

\* this step is caller p leaving _rate_limit: the limiter lets its request go
Released(p) == pc[p] = "stamp" /\ pc'[p] = "request"

\* N requests take at least (N-1) x RATE_LIMIT_DELAY, and a cache hit has not waited
C12_Timing ==
    /\ TotalRequests >= 1 =>
          now - StartTime >= (TotalRequests - 1) * RATE_LIMIT_DELAY
    /\ \A p \in Callers :
          (Returned(p) /\ ret[p].outcome = "result" /\ ret[p].cached) =>
              waits[p] = 0 /\ requests[p] = 0

\* the limiter lets a request go only RATE_LIMIT_DELAY or more after the previous one
C12_Spaced ==
    \A p \in Callers : Released(p) => now - _last_request_time >= RATE_LIMIT_DELAY

\* C12: in sequential use any two consecutive provider requests are let go at least
\* RATE_LIMIT_DELAY (50 ms) apart, so N requests take at least (N-1) x RATE_LIMIT_DELAY,
\* and a call answered from the cache never waits.
C12_SequentialRate == [](C12_Timing) /\ [][C12_Spaced]_vars

\* a third request is about to be made by a call that has slept in the limiter
C12_Witness ==
    \E p \in Callers :
        /\ pc[p] = "request" /\ wake[p] = now
        /\ TotalRequests = 2
        /\ now - StartTime >= 2 * RATE_LIMIT_DELAY

(***************************************************************************)
(* C13  Concurrent rate limiting                                           *)
(***************************************************************************)
\* C13: with several callers inside geocode_address at once on the shared service,
\* under every interleaving no request is let go less than RATE_LIMIT_DELAY after the
\* previous one, whichever caller made it.
C13_ConcurrentRate ==
    [][\A p \in Callers :
          Released(p) => _last_request_time + RATE_LIMIT_DELAY <= now]_vars

(***************************************************************************)
(* C14  Store write failures are rolled back and reported                  *)
(***************************************************************************)
\* a call whose store write raised has left the entry of its key as it was
C14_RolledBack ==
    \A p \in Callers : (Returned(p) /\ writeFailed[p]) => Entry(p) = pre[p]

\* C14: when a store write of a call fails (the success upsert, the usage update or the
\* write of _record_error), the committed entries stay exactly as they were and the
\* caller gets a store-level failure: neither a result nor the None that stands for
\* "not geocoded".
C14_WriteFailureReported ==
    /\ C14_RolledBack
    /\ \A p \in Callers :
          (Returned(p) /\ writeFailed[p]) => ret[p].outcome \notin {"result", "None"}

(***************************************************************************)
(* C15  batch_geocode keeps the order and reports the progress             *)
(***************************************************************************)
\* the number of items batch_geocode has finished
Done == Len(batch.results)

\* the number of items of the batch
Total == Len(batch.addresses)

\* C15: batch_geocode returns a list as long as its input whose element i holds
\* addresses[i] and the outcome of geocode_address on it; the items are processed one
\* after the other in input order, one call each; and a progress callback is called
\* once after each item, with (i+1, total).
C15_BatchInOrder ==
    (batch.state \in {"running", "returned"} /\ ~batch.route) =>
        /\ Done <= Total
        /\ batch.state = "returned" => Done = Total
        /\ \A j \in 1..Done :
            /\ batch.results[j].input = batch.addresses[j]
            /\ batch.results[j].result.outcome \in {"result", "None"}
            /\ batch.results[j].result.outcome = "result" =>
                  \E row \in store :
                      /\ row.id = batch.results[j].result.cache_id
                      /\ row.address_key = KeyOf(Arguments(batch.addresses[j]))
        /\ \A p \in Callers :
              InCall(p) =>
                  /\ Done < Total
                  /\ req[p].a = Arguments(batch.addresses[Done + 1])
                  /\ ~req[p].force_refresh
        /\ calls = Done + Cardinality({p \in Callers : InCall(p)})
        /\ IF batch.callback
           THEN /\ Len(batch.progress) = Done
                /\ \A j \in 1..Done : batch.progress[j] = <<j, Total>>
           ELSE batch.progress = << >>

\* a batch of two different addresses has returned, the first item failed, the second
\* was geocoded, and the callback was called twice
C15_Witness ==
    /\ batch.state = "returned" /\ ~batch.route /\ batch.callback
    /\ Total = 2
    /\ batch.addresses[1] = AddrOther /\ batch.addresses[2] = AddrNoState
    /\ batch.results[1].result = ReturnedNone
    /\ batch.results[2].result.outcome = "result"
    /\ batch.progress = <<(<<1, 2>>), (<<2, 2>>)>>

C17_Idempotent == norm.stage = "again" => norm.again = norm.address_key

(***************************************************************************)
(* C18  Equivalent addresses share one key and one cache entry             *)
(***************************************************************************)
\* the two ways of writing an address give the same key
C18_SameKey == norm.stage = "both" => norm.other_key = norm.address_key

\* a non-forced call whose key has a valid entry answers from it, without a provider call
C18_HitOnSharedKey ==
    \A p \in Callers :
        (Returned(p) /\ ~req[p].force_refresh /\ WasValid(p)) =>
            /\ ret[p].outcome = "result"
            /\ ret[p].cached = TRUE
            /\ ret[p].lat = pre[p].latitude
            /\ ret[p].lng = pre[p].longitude
            /\ requests[p] = 0

\* C18: two addresses that differ only in letter case, whitespace, a trailing unit
\* designator with its number, the abbreviation style or a ZIP+4 suffix get the same
\* key, so that once one is geocoded a non-forced call for the other is a cache hit
\* with the same coordinates and no provider call.
C18_EquivalentShareCache ==
    /\ C18_SameKey
    /\ KeyOf(AddrVariant) = KeyOf(AddrPlain)
    /\ C18_HitOnSharedKey

(***************************************************************************)
(* C19  Cost accounting of get_cache_stats                                 *)
(***************************************************************************)
\* C19: get_cache_stats reports api_calls_saved = (sum of usage_count over all entries)
\* - (number of entries), estimated_cost = number of entries x unit price and
\* estimated_savings = api_calls_saved x unit price, and changes no entry.
C19_CostAccounting ==
    stats # NoStats =>
        /\ stats.outcome = "result"
        /\ stats.api_calls_saved = SumUsage(store) - Cardinality(store)
        /\ stats.estimated_cost = Cardinality(store) * PricePerRequest
        /\ stats.estimated_savings = stats.api_calls_saved * PricePerRequest
        /\ store = stats.entries

CountedValid(rows) == {r \in rows : r.latitude # NoneFloat}
CountedFailed(rows) == {r \in rows : r.error_message # None}

\* C21: in every reachable store state each entry is either VALID (latitude and
\* longitude present, error_message absent) or ERRORED (coordinates absent,
\* error_message set); no entry has both coordinates and an error_message, so the
\* 'valid' and 'failed' counts of get_cache_stats never count the same entry twice.
C21_StatePartition ==
    /\ \A r \in store :
          \/ HasCoordinates(r) /\ r.error_message = None
          \/ r.latitude = NoneFloat /\ r.longitude = NoneFloat /\ r.error_message # None
    /\ CountedValid(store) \cap CountedFailed(store) = {}

(***************************************************************************)
(* C22  usage_count                                                        *)
(***************************************************************************)
\* usage_count of the entry of p's key when p's call started, 0 when there was none
UsageBefore(p) == IF pre[p] = NoRow THEN 0 ELSE pre[p].usage_count

\* every entry has usage_count >= 1; a call that returned a result has counted itself
\* exactly once (an entry it created starts at 1); a call that returned None on an
\* existing entry left its usage_count alone
C22_Counted ==
    /\ \A r \in store : r.usage_count >= 1
    /\ \A p \in Callers :
          Returned(p) =>
              IF ret[p].outcome = "result"
              THEN Entry(p) # NoRow /\ Entry(p).usage_count = UsageBefore(p) + 1
              ELSE pre[p] # NoRow =>
                      Entry(p) # NoRow /\ Entry(p).usage_count = pre[p].usage_count

\* no step removes an entry or lowers its usage_count, or raises it by more than 1
C22_NeverDecreases ==
    \A r \in store :
        \E r2 \in store' :
            /\ r2.id = r.id
            /\ r2.usage_count \in {r.usage_count, r.usage_count + 1}

Recording(k) ==
    {p \in Callers : pc[p] \in {"upsert_query", "upsert_commit"} /\ address_key[p] = k}

\* a successful geocode of key k has been written to the store (exact when calls do
\* not overlap)
RecordedSuccess(k) == okAttempts[k] > Cardinality(Recording(k))

\* the entry of key k has both coordinates
Located(rows, k) ==
    /\ First(rows, k) # NoRow
    /\ First(rows, k).latitude # NoneFloat
    /\ First(rows, k).longitude # NoneFloat

\* this step commits the success path of p's call
RecordsSuccess(p) == pc[p] = "upsert_commit" /\ pc'[p] = "fresh_return"

\* in every store state latitude and longitude are present together, only for a key
\* the provider has answered, and the 'valid' count is the count of is_valid entries
C23_Together ==
    /\ \A r \in store :
          /\ r.latitude # NoneFloat <=> r.longitude # NoneFloat
          /\ r.latitude # NoneFloat => okAttempts[r.address_key] >= 1
    /\ CountedValid(store) = {r \in store : is_valid(r)}

\* after a step an entry has coordinates iff it had them or the step recorded a
\* successful geocode of its key
C23_SinceRecorded ==
    \A k \in Keys :
        Located(store', k) <=>
            (Located(store, k) \/ \E p \in Callers : RecordsSuccess(p) /\ address_key[p] = k)

AtProvider(p) == pc[p] \in {"rate_limit", "sleep", "stamp", "request"}

\* p's session has a transaction open, that is a connection of the pool checked out
HoldsConnection(p) == session[p].began

\* C25: on the cache-miss path of geocode_address the connection used for the cache
\* read is released before the rate-limiter wait and the provider request, and one is
\* acquired again only for the write.
C25_NoConnectionAcrossProvider ==
    \A p \in Callers : AtProvider(p) => ~HoldsConnection(p)

(***************************************************************************)
(* C28  api_calls_saved counts only the calls that were saved              *)
(***************************************************************************)
\* 'api_calls_saved' as get_cache_stats computes it from the entries
ApiCallsSaved(rows) == Minus(Or0(sum_usage_count(rows)), Cardinality(rows)).value

\* this step is the commit of a cache hit: a call answered without a provider request
HitStep == \E p \in Callers : pc[p] = "hit_commit" /\ pc'[p] = "hit_return"

\* api_calls_saved grows by one with a cache hit and with nothing else
C28_GrowsWithHitsOnly ==
    ApiCallsSaved(store') <= ApiCallsSaved(store) + (IF HitStep THEN 1 ELSE 0)

\* C28: starting from an empty store, after any sequence of geocode_address calls the
\* api_calls_saved of get_cache_stats is non-negative and never exceeds the number of
\* calls that were answered from the cache without a provider request.
C28_SavedCallsOnly == [](ApiCallsSaved(store) >= 0) /\ [][C28_GrowsWithHitsOnly]_vars

(***************************************************************************)
(* C29  Unit stripping removes unit designators only                       *)
(***************************************************************************)
\* the whitespace-separated words of s
RECURSIVE WordsFrom(_, _, _)
WordsFrom(s, i, cur) ==
    IF i > Len(s) THEN (IF cur = <<>> THEN <<>> ELSE <<cur>>)
    ELSE IF IsSpace(s[i])
         THEN (IF cur = <<>> THEN <<>> ELSE <<cur>>) \o WordsFrom(s, i + 1, <<>>)
         ELSE WordsFrom(s, i + 1, Append(cur, s[i]))

Words(s) == WordsFrom(s, 1, <<>>)

\* street s has a word that is a unit designator, or that begins with '#'
NamesAUnit(s) ==
    \E i \in DOMAIN Words(upper(s)) :
        Words(upper(s))[i] \in UnitDesignators \/ Words(upper(s))[i][1] = "#"

\* the street of the key of a street from which nothing is to be stripped
Unstripped(s) == join_split(Abbreviate(strip(upper(s))))

\* C29: normalisation removes text from the end of street only when one of APT, UNIT,
\* #, STE, SUITE, BLDG, BUILDING occurs there as a designator followed by one token; a
\* street whose final word merely contains those letters inside a longer word is left
\* intact, so that streets differing in a street-name word never share a key.
C29_StripsUnitsOnly ==
    (norm.stage = "key" /\ ~NamesAUnit(norm.x.street)) =>
        split(norm.address_key)[1] = Unstripped(norm.x.street)

(***************************************************************************)
(* C27  No lost usage updates                                              *)
(***************************************************************************)
\* usage_count of the entry of key k in the set of rows
UsageOf(rows, k) == First(rows, k).usage_count

\* the commit of p's cache hit adds exactly 1 to the usage_count the store holds
CountedHit(p) ==
    (pc[p] = "hit_commit" /\ pc'[p] = "hit_return") =>
        UsageOf(store', address_key[p]) = UsageOf(store, address_key[p]) + 1

\* C27: when k cache-hit calls for the same valid key run concurrently, the entry's
\* usage_count afterwards has grown by exactly k under every interleaving: each of the
\* k commits adds 1 to what the store holds.
C27_NoLostUsageUpdates == [][\A p \in Callers : CountedHit(p)]_vars

(***************************************************************************)
(* C26  The success upsert is atomic                                       *)
(***************************************************************************)
\* the answers the provider gives in the model
Answers == Candidates \cup {CenterCandidate}

\* latitude, longitude, accuracy, confidence, formatted_address and place_id of entry r
\* are those of one provider answer
WholeEntry(r) ==
    \E c \in Answers :
        /\ r.latitude = FloatColumn(c.lat)
        /\ r.longitude = FloatColumn(c.lng)
        /\ r.accuracy = LocationType(c)
        /\ r.confidence = DocumentedConfidence(LocationType(c))
        /\ r.formatted_address = c.formatted_address
        /\ r.place_id = c.place_id

\* the same for a result returned from the cache
WholeResult(r) ==
    \E c \in Answers :
        /\ r.lat = FloatColumn(c.lat)
        /\ r.lng = FloatColumn(c.lng)
        /\ r.accuracy = LocationType(c)
        /\ r.confidence = DocumentedConfidence(LocationType(c))
        /\ r.formatted_address = c.formatted_address
        /\ r.place_id = c.place_id

\* C26: under any interleaving with a concurrent writer refreshing the same key, a
\* reader (a cache-hit lookup, or get_cache_stats reading the entries) never observes a
\* half-updated entry, such as the new latitude and longitude with the old accuracy or
\* confidence.
C26_AtomicUpsert ==
    /\ \A r \in store : HasCoordinates(r) => WholeEntry(r)
    /\ \A p \in Callers :
          (Returned(p) /\ ret[p].outcome = "result" /\ ret[p].cached) => WholeResult(ret[p])

(***************************************************************************)
(* C24  Confidence is a function of accuracy                               *)
(***************************************************************************)
\* C24: in every reachable store state every entry with accuracy present has the
\* confidence the fixed mapping gives for that accuracy (ROOFTOP -> high;
\* RANGE_INTERPOLATED, GEOMETRIC_CENTER -> medium; anything else -> low), and every
\* result geocode_address returns, cached or fresh, carries a confidence consistent
\* with its accuracy.
C24_ConfidenceFromAccuracy ==
    /\ \A r \in store :
          r.accuracy # None => r.confidence = DocumentedConfidence(r.accuracy)
    /\ \A p \in Callers :
          (Returned(p) /\ ret[p].outcome = "result") =>
              ret[p].confidence = DocumentedConfidence(ret[p].accuracy)

(***************************************************************************)
(* C30  The geocoding routes authenticate the session before acting        *)
(***************************************************************************)
\* C30: no handler of /geocoding/lookup, /geocoding/api/geocode or
\* /geocoding/api/geocode/batch is inside geocode_address, and so no provider request
\* or cache write of it happens, for a request whose session does not resolve to an
\* existing active user.
C30_AuthenticatedFirst ==
    \A p \in Callers :
        (http.state = "handler" /\ InCall(p)) => http.user # NoUser

====
